---- MODULE Spec2Model ----
(***************************************************************************)
(* Ingestion-and-retrieval pipeline of plug_and_play_rag:                  *)
(*   app/database/csv_connector.py   CSVConnector (source record reader)   *)
(*   app/database/factory.py         DatabaseFactory.create_connector      *)
(*   app/chat/rag_service.py         RAGService ingestion pipeline         *)
(*   app/embeddings/manager.py       EmbeddingManager (vector sink)        *)
(*   app/main.py                     /ingest-data and /ingest-csv          *)
(*                                                                         *)
(* A Python str is a sequence of tokens (a token is a TLA+ string; " " is  *)
(* the whitespace token).  A Python value is a record [ty, s, d]: ty is    *)
(* its type, s its characters when it is a str, d its items (a sequence of *)
(* <<key, value>> pairs in insertion order) when it is a dict.             *)
(***************************************************************************)
EXTENDS Integers, Sequences, FiniteSets, TLC

----------------------------------------------------------------------------
(* Bounds of the model                                                     *)

MaxPrefix    == 2   \* free-form rows in front of the uniform rows of a file
MaxOver      == 1   \* uniform rows beyond the flush threshold
MaxSmallRows == 3   \* rows of the small files of the schema family
MaxPrior     == 1   \* entries already persisted in the index at startup
MaxIndex     == 3   \* index entries in the sink specification
MaxK         == 3   \* largest n_results of a query
MaxStored    == 2   \* messages a history file holds at startup
MaxNew       == 2   \* messages added to the histories
MaxLimit     == 2   \* largest limit of a direct get_history call
MaxPairRows  == 2   \* rows of the files of two concurrent requests
MaxTypedRows == 2   \* rows of the files with a typed column
MaxFetchRows == 3   \* rows of the files fetched directly; largest limit, offset, chunk size
MaxClients   == 3   \* LLM clients created, the one of the startup included
MaxChunks    == 3   \* chunks the LLM generates for one streamed answer

RunIds == {1, 2}

----------------------------------------------------------------------------
(* Python values                                                           *)

PyStr(s)  == [ty |-> "str",  s |-> s,    d |-> <<>>]
PyDict(d) == [ty |-> "dict", s |-> <<>>, d |-> d]
PyNone    == [ty |-> "none", s |-> <<>>, d |-> <<>>]
PyNaN     == [ty |-> "nan",  s |-> <<>>, d |-> <<>>]
PyInt(s)   == [ty |-> "int",   s |-> s, d |-> <<>>]
PyFloat(s) == [ty |-> "float", s |-> s, d |-> <<>>]
PyBool(b)  == [ty |-> "bool",  s |-> IF b THEN <<"True">> ELSE <<"False">>, d |-> <<>>]
PyNaT      == [ty |-> "nat",   s |-> <<>>, d |-> <<>>]
PyTimestamp(s) == [ty |-> "ts", s |-> s, d |-> <<>>]

WS == {" "}

RECURSIVE LStrip(_)
LStrip(s) == IF s # <<>> /\ Head(s) \in WS THEN LStrip(Tail(s)) ELSE s

RECURSIVE RStrip(_)
RStrip(s) ==
    IF s # <<>> /\ s[Len(s)] \in WS THEN RStrip(SubSeq(s, 1, Len(s) - 1)) ELSE s

\* str.strip()
Strip(s) == RStrip(LStrip(s))

\* sep.join(parts)
RECURSIVE Join(_, _)
Join(sep, parts) ==
    IF parts = <<>> THEN <<>>
    ELSE IF Len(parts) = 1 THEN parts[1]
    ELSE parts[1] \o sep \o Join(sep, Tail(parts))

\* str(value)
Str(v) ==
    CASE v.ty = "str"  -> v.s
      [] v.ty = "none" -> <<"None">>
      [] v.ty = "nan"  -> <<"nan">>
      [] v.ty \in {"int", "float", "bool", "ts"} -> v.s
      [] v.ty = "nat"  -> <<"NaT">>
      [] OTHER         -> <<"{...}">>

\* key in dict, dict[key]
HasKey(d, k) == \E i \in 1..Len(d) : d[i][1] = k
GetKey(d, k) == d[CHOOSE i \in 1..Len(d) : d[i][1] = k][2]

\* dict[key] = value (a new key is appended, an existing one keeps its place)
SetKey(d, k, v) ==
    IF HasKey(d, k)
    THEN [i \in 1..Len(d) |-> IF d[i][1] = k THEN <<k, v>> ELSE d[i]]
    ELSE Append(d, <<k, v>>)

\* needle in haystack, both str
IsSubstring(needle, hay) ==
    \E i \in 1..(Len(hay) + 1) :
        /\ i + Len(needle) - 1 <= Len(hay)
        /\ SubSeq(hay, i, i + Len(needle) - 1) = needle

\* concatenation of a sequence of sequences
RECURSIVE Flatten(_)
Flatten(ss) == IF ss = <<>> THEN <<>> ELSE Head(ss) \o Flatten(Tail(ss))

Min(a, b) == IF a <= b THEN a ELSE b

----------------------------------------------------------------------------
(* CSVConnector: app/database/csv_connector.py                             *)

\* _validate_config, run by the constructor: "ok" or the exception raised
ValidateConfig(csv_config, file) ==
    LET column_names == {csv_config.columns[i].name : i \in 1..Len(csv_config.columns)}
    IN  IF ~file.exists THEN "FileNotFoundError"
        ELSE IF \E i \in 1..Len(csv_config.text_columns) :
                    csv_config.text_columns[i] \notin column_names
             THEN "ValueError"
        ELSE IF \E i \in 1..Len(csv_config.metadata_columns) :
                    csv_config.metadata_columns[i] \notin column_names
             THEN "ValueError"
        ELSE "ok"

\* pd.read_csv: one mapping column -> cell per row, columns in header order
ReadCsv(file) ==
    [columns |-> file.header,
     rows    |-> [i \in 1..Len(file.rows) |->
                    [j \in 1..Len(file.header) |-> <<file.header[j], file.rows[i][j]>>]]]

\* pd.to_numeric(errors='coerce') on one cell: the number a numeric string
\* spells ("inf" spells the float infinity), NaN for anything else
ToNumeric(v) ==
    CASE v.ty \in {"int", "float"} -> v
      [] v.ty = "str" /\ v.s = <<"42">>  -> PyInt(v.s)
      [] v.ty = "str" /\ v.s \in {<<"1.5">>, <<"inf">>} -> PyFloat(v.s)
      [] OTHER -> PyNaN

IsInf(n) == n.ty = "float" /\ n.s = <<"inf">>

\* astype(int) on a finite number: the fraction is cut off
AsInt(n) == IF n.s = <<"1.5">> THEN PyInt(<<"1">>) ELSE PyInt(n.s)

\* the float of a number
AsFloat(n) == IF n.ty = "int" THEN PyFloat(n.s \o <<".0">>) ELSE n

\* pd.to_datetime(errors='coerce') on one cell
ToDatetime(v) ==
    IF v.ty = "str" /\ v.s = <<"2024-01-01">> THEN PyTimestamp(v.s) ELSE PyNaT

\* str.lower()
Lower(s) == [i \in 1..Len(s) |-> IF s[i] = "Yes" THEN "yes" ELSE s[i]]

\* safe_json_parse(value)
SafeJsonParse(v) ==
    CASE v.ty = "nan" \/ (v.ty = "str" /\ v.s = <<>>) -> PyDict(<<>>)
      [] v.ty = "str" /\ v.s = <<"{\"a\": \"b\"}">> ->
            PyDict(<< <<(<<"a">>), PyStr(<<"b">>)>> >>)
      [] OTHER -> PyDict(<<>>)      \* json.JSONDecodeError

\* _process_column on one cell of a column of the configured type
ProcessValue(type, v) ==
    CASE type = "text"     -> IF v.ty = "nan" THEN PyStr(<<>>) ELSE PyStr(Str(v))
      [] type = "integer"  -> IF ToNumeric(v).ty = "nan" THEN PyInt(<<"0">>)
                              ELSE IF IsInf(ToNumeric(v)) THEN ToNumeric(v)
                              ELSE AsInt(ToNumeric(v))
      [] type = "float"    -> IF ToNumeric(v).ty = "nan" THEN PyFloat(<<"0.0">>)
                              ELSE AsFloat(ToNumeric(v))
      [] type = "datetime" -> ToDatetime(v)
      [] type = "boolean"  -> PyBool(Lower(Str(v)) \in {<<"true">>, <<"1">>, <<"yes">>, <<"y">>})
      [] type = "json"     -> SafeJsonParse(v)
      [] OTHER             -> v

\* _process_column on the cells of a column: astype(int) raises when a value
\* of the column is not finite; the handler then fills the column with the
\* configured default value, or re-raises when there is none
ProcessColumn(config, cells) ==
    IF config.type = "integer" /\ \E k \in 1..Len(cells) : IsInf(ToNumeric(cells[k]))
    THEN (IF config.default_value.ty # "none"
          THEN [err |-> "ok", cells |-> [k \in 1..Len(cells) |-> config.default_value]]
          ELSE [err |-> "ValueError", cells |-> cells])
    ELSE [err |-> "ok", cells |-> [k \in 1..Len(cells) |-> ProcessValue(config.type, cells[k])]]

ColumnConfig(csv_config, name) ==
    csv_config.columns[CHOOSE i \in 1..Len(csv_config.columns) :
                            csv_config.columns[i].name = name]

IsConfigured(csv_config, name) ==
    \E i \in 1..Len(csv_config.columns) : csv_config.columns[i].name = name

\* faulty variant: the check of the required columns is skipped
MissingRequiredNone(csv_config, df) == {}

\* the configured columns that are required and absent from the dataframe
MissingRequired(csv_config, df) ==
    {i \in 1..Len(csv_config.columns) :
        /\ csv_config.columns[i].required
        /\ \A j \in 1..Len(df.columns) : df.columns[j] # csv_config.columns[i].name}

\* the second loop of _process_dataframe: a missing required column is
\* filled with its default value, in declaration order
RECURSIVE AddDefaults(_, _, _)
AddDefaults(csv_config, df, i) ==
    IF i > Len(csv_config.columns) THEN df
    ELSE LET col == csv_config.columns[i]
         IN  IF i \in MissingRequired(csv_config, df) /\ col.default_value.ty # "none"
             THEN AddDefaults(csv_config,
                    [columns |-> Append(df.columns, col.name),
                     rows    |-> [k \in 1..Len(df.rows) |->
                                    Append(df.rows[k], <<col.name, col.default_value>>)]],
                    i + 1)
             ELSE AddDefaults(csv_config, df, i + 1)

\* _process_dataframe: the exception raised ("ok" when none) and the dataframe
ProcessDataframe(csv_config, df) ==
    LET column(j) == ProcessColumn(ColumnConfig(csv_config, df.columns[j]),
                                   [k \in 1..Len(df.rows) |-> df.rows[k][j][2]])
        raised == \E j \in 1..Len(df.columns) :
                    IsConfigured(csv_config, df.columns[j]) /\ column(j).err # "ok"
        processed ==
            [columns |-> df.columns,
             rows    |-> [k \in 1..Len(df.rows) |->
                            [j \in 1..Len(df.columns) |->
                                IF IsConfigured(csv_config, df.columns[j])
                                THEN <<df.columns[j], column(j).cells[k]>>
                                ELSE df.rows[k][j]]]]
        fatal == \E i \in MissingRequired(csv_config, processed) :
                    csv_config.columns[i].default_value.ty = "none"
    IN  IF raised
        THEN LET first == CHOOSE j \in 1..Len(df.columns) :
                            /\ IsConfigured(csv_config, df.columns[j]) /\ column(j).err # "ok"
                            /\ \A i \in 1..(j - 1) :
                                IsConfigured(csv_config, df.columns[i]) => column(i).err = "ok"
             IN  [err |-> "ValueError",
                  df  |-> [columns |-> df.columns,
                           rows |-> [k \in 1..Len(df.rows) |->
                                [j \in 1..Len(df.columns) |->
                                    IF j < first /\ IsConfigured(csv_config, df.columns[j])
                                    THEN <<df.columns[j], column(j).cells[k]>>
                                    ELSE df.rows[k][j]]]]]
        ELSE IF fatal THEN [err |-> "ValueError", df |-> processed]
        ELSE [err |-> "ok", df |-> AddDefaults(csv_config, processed, 1)]

\* connect(): read the file, then process the dataframe
Connect(csv_config, file) == ProcessDataframe(csv_config, ReadCsv(file))

\* the record clean-up of fetch_in_chunks: a missing value becomes None
CleanRecord(record) ==
    [j \in 1..Len(record) |->
        CASE record[j][2].ty \in {"nan", "nat"} -> <<record[j][1], PyNone>>
          [] record[j][2].ty = "ts" ->
                <<record[j][1], PyStr(record[j][2].s \o <<"T00:00:00">>)>>
          [] OTHER -> record[j]]

\* faulty variant: a chunk ends one row after its offset
ChunkEndShort(start_idx, chunk_size, total_rows) == Min(start_idx + 1, total_rows)

\* the bounds [start_idx + 1, end_idx] of the chunk fetch_in_chunks yields at
\* offset start_idx of a dataframe of total_rows rows
ChunkEnd(start_idx, chunk_size, total_rows) == Min(start_idx + chunk_size, total_rows)

\* get_text_content(record)
RECURSIVE TextParts(_, _)
TextParts(text_columns, record) ==
    IF text_columns = <<>> THEN <<>>
    ELSE LET column == Head(text_columns)
             rest   == TextParts(Tail(text_columns), record)
         IN  IF HasKey(record, column) /\ GetKey(record, column).ty # "none"
             THEN LET text_content == Strip(Str(GetKey(record, column)))
                  IN  IF text_content # <<>> THEN <<text_content>> \o rest ELSE rest
             ELSE rest

get_text_content(csv_config, record) ==
    Join(<<" ">>, TextParts(csv_config.text_columns, record))

\* get_metadata(record)
RECURSIVE MetadataColumns(_, _, _)
MetadataColumns(metadata, columns, record) ==
    IF columns = <<>> THEN metadata
    ELSE MetadataColumns(
            IF HasKey(record, Head(columns))
            THEN SetKey(metadata, Head(columns), GetKey(record, Head(columns)))
            ELSE metadata,
            Tail(columns), record)

get_metadata(csv_config, record) ==
    LET base == << <<(<<"source">>), PyStr(<<"csv">>)>>,
                   <<(<<"file_path">>), PyStr(csv_config.file_path)>> >>
        cols == MetadataColumns(base, csv_config.metadata_columns, record)
    IN  IF HasKey(record, <<"index">>)
        THEN SetKey(cols, <<"row_index">>, GetKey(record, <<"index">>))
        ELSE cols

----------------------------------------------------------------------------
(* EmbeddingManager: app/embeddings/manager.py                             *)

\* Python's `field in document`: "true", "false" or the exception raised
PyIn(field, document) ==
    CASE document.ty = "str" ->
            IF field.ty = "str"
            THEN (IF IsSubstring(field.s, document.s) THEN "true" ELSE "false")
            ELSE "TypeError"
      [] document.ty = "dict" ->
            IF field.ty = "dict" THEN "TypeError"
            ELSE IF field.ty = "str" /\ HasKey(document.d, field.s) THEN "true"
            ELSE "false"
      [] OTHER -> "TypeError"

\* the loop of _combine_text_fields: the labelled parts, or the exception
RECURSIVE CombineParts(_, _)
CombineParts(document, text_fields) ==
    IF text_fields = <<>> THEN [err |-> "ok", parts |-> <<>>]
    ELSE LET field  == Head(text_fields)
             member == PyIn(field, document)
         IN  IF member = "TypeError" THEN [err |-> "TypeError", parts |-> <<>>]
             ELSE IF member = "true" /\ document.ty = "str"
                  THEN [err |-> "TypeError", parts |-> <<>>]   \* document[field] on a str
             ELSE LET rest == CombineParts(document, Tail(text_fields))
                      item == IF member = "true" THEN GetKey(document.d, field.s) ELSE PyNone
                      value == Strip(Str(item))
                  IN  IF rest.err # "ok" THEN rest
                      ELSE IF member = "true" /\ item.ty # "none" /\ value # <<>>
                           THEN [err |-> "ok",
                                 parts |-> <<field.s \o <<":", " ">> \o value>> \o rest.parts]
                           ELSE rest

\* _combine_text_fields(document, text_fields)
CombineTextFields(document, text_fields) ==
    LET r == CombineParts(document, text_fields)
    IN  [err |-> r.err, text |-> Join(<<" ", "|", " ">>, r.parts)]

\* a list value: its items, kept as pairs with an empty key
PyList(items) ==
    [ty |-> "list", s |-> <<>>, d |-> [i \in 1..Len(items) |-> <<(<<>>), items[i]>>]]

\* json.dumps(value) for strings, None and mappings of them
RECURSIVE JsonDumps(_)
JsonDumps(value) ==
    CASE value.ty = "str"  -> <<"\"">> \o value.s \o <<"\"">>
      [] value.ty = "none" -> <<"null">>
      [] value.ty = "dict" ->
            <<"{">> \o Join(<<",", " ">>,
                            [i \in 1..Len(value.d) |->
                                <<"\"">> \o value.d[i][1] \o <<"\"", ":", " ">>
                                    \o JsonDumps(value.d[i][2])])
                    \o <<"}">>
      [] OTHER -> Str(value)

\* ", ".join(str(v) for v in value)
CommaJoin(value) == Join(<<",", " ">>, [i \in 1..Len(value.d) |-> Str(value.d[i][2])])

\* the value _clean_metadata stores for a value that is not None
CleanValue(value) ==
    CASE value.ty = "list" -> PyStr(CommaJoin(value))
      [] value.ty = "dict" -> PyStr(JsonDumps(value))
      [] OTHER             -> value

\* faulty variant: the metadata is stored as it came
CleanMetadataKeep(metadata) == metadata

\* _clean_metadata(metadata): None values are dropped, lists and mappings
\* become strings
CleanMetadata(metadata) ==
    LET kept == SelectSeq(metadata, LAMBDA item : item[2].ty # "none")
    IN  [i \in 1..Len(kept) |-> <<kept[i][1], CleanValue(kept[i][2])>>]

\* one turn of the loop of add_documents: the text and metadata retained for
\* a document, or the exception raised
CollectDocument(doc, text_fields) ==
    LET combined == CombineTextFields(doc, text_fields)
    IN  IF combined.err # "ok"
        THEN [err |-> combined.err, texts |-> <<>>, metadatas |-> <<>>]
        ELSE IF Strip(combined.text) = <<>>
        THEN [err |-> "ok", texts |-> <<>>, metadatas |-> <<>>]
        ELSE [err |-> "ok", texts |-> <<combined.text>>,
              metadatas |-> <<CleanMetadata(doc.d)>>]

\* the turns for the documents lo..hi, in their order: the first exception
\* ends the loop (the range is halved to keep the evaluation shallow)
RECURSIVE CollectRange(_, _, _, _)
CollectRange(documents, text_fields, lo, hi) ==
    IF lo > hi THEN [err |-> "ok", texts |-> <<>>, metadatas |-> <<>>]
    ELSE IF lo = hi THEN CollectDocument(documents[lo], text_fields)
    ELSE LET mid   == (lo + hi) \div 2
             first == CollectRange(documents, text_fields, lo, mid)
         IN  IF first.err # "ok" THEN first
             ELSE LET rest == CollectRange(documents, text_fields, mid + 1, hi)
                  IN  IF rest.err # "ok" THEN rest
                      ELSE [err       |-> "ok",
                            texts     |-> first.texts \o rest.texts,
                            metadatas |-> first.metadatas \o rest.metadatas]

\* the loop of add_documents over the documents: the texts and metadatas
\* retained, or the exception raised
CollectDocuments(documents, text_fields) ==
    CollectRange(documents, text_fields, 1, Len(documents))

\* faulty variant: the guard tests the collection only
NotInitializedCollectionOnly(coll, model) == coll = "None"

\* `if not self.collection or not self.embedding_model`
NotInitialized(coll, model) == coll = "None" \/ model = "None"

\* add_documents(documents, text_fields) on a sink whose collection and
\* embedding model are as given; fault: the embedding model or the vector
\* store raises.  Yields the outcome and the entries handed to collection.add.
AddDocuments(coll, model, documents, text_fields, fault) ==
    IF NotInitialized(coll, model)
    THEN [outcome |-> "ValueError", texts |-> <<>>, metadatas |-> <<>>]
    ELSE LET c == CollectDocuments(documents, text_fields)
         IN  IF c.err # "ok"
             THEN [outcome |-> c.err, texts |-> <<>>, metadatas |-> <<>>]
             ELSE IF c.texts = <<>>
             THEN [outcome |-> "ok", texts |-> <<>>, metadatas |-> <<>>]
             ELSE IF fault
             THEN [outcome |-> "EmbeddingOrIndexFailure", texts |-> <<>>, metadatas |-> <<>>]
             ELSE [outcome |-> "ok", texts |-> c.texts, metadatas |-> c.metadatas]

\* faulty variant: the ids are the positions of the texts in the call
NewEntriesPositionIds(texts, metadatas, next_id) ==
    [i \in 1..Len(texts) |-> [id |-> i, document |-> texts[i], metadata |-> metadatas[i]]]

\* the entries collection.add stores: one per text, ids str(uuid.uuid4())
NewEntries(texts, metadatas, next_id) ==
    [i \in 1..Len(texts) |->
        [id |-> next_id + i - 1, document |-> texts[i], metadata |-> metadatas[i]]]

----------------------------------------------------------------------------
(* Inputs: files, configurations, requests                                 *)

\* the fixed flush threshold of the ingestion loops (`len(documents) >= 100`)
FlushThreshold == 100

\* CSVConfig.chunk_size values: the default and a small one
DefaultChunkSize == 1000
ChunkSizes == {2, DefaultChunkSize}

Title   == <<"title">>
Content == <<"content">>
Author  == <<"author">>

TextColumn(name) ==
    [name |-> name, type |-> "text", required |-> FALSE, default_value |-> PyNone]

\* the declaration of the author column: optional, required without a
\* default, or required with a default
AuthorColumns ==
    {[name |-> Author, type |-> "text", required |-> req, default_value |-> def] :
        req \in BOOLEAN, def \in {PyNone, PyStr(<<"anon">>)}}

CsvConfig(author, chunk_size) ==
    [file_path        |-> <<"data.csv">>,
     columns          |-> <<TextColumn(Title), TextColumn(Content), author>>,
     text_columns     |-> <<Title, Content>>,
     metadata_columns |-> <<Author>>,
     chunk_size       |-> chunk_size]

\* the cells (title, content, author) of the row at position i of a file
RowKinds == {"full", "empty", "blank", "noauthor"}

RowCells(kind, i) ==
    CASE kind = "full"     -> <<PyStr(<<ToString(i)>>), PyStr(<<"text">>), PyStr(<<"ann">>)>>
      [] kind = "empty"    -> <<PyNaN, PyNaN, PyStr(<<"ann">>)>>
      [] kind = "blank"    -> <<PyStr(<<" ">>), PyNaN, PyStr(<<"ann">>)>>
      [] kind = "noauthor" -> <<PyStr(<<" ", ToString(i)>>), PyNaN, PyNaN>>

\* a file whose rows have the given kinds, with or without an author column
File(exists, kinds, has_author) ==
    [exists |-> exists,
     header |-> IF has_author THEN <<Title, Content, Author>> ELSE <<Title, Content>>,
     rows   |-> [i \in 1..Len(kinds) |->
                    IF has_author THEN RowCells(kinds[i], i)
                    ELSE SubSeq(RowCells(kinds[i], i), 1, 2)]]

\* all sequences over S of length at most n
SeqsUpTo(S, n) == UNION {[1..k -> S] : k \in 0..n}

\* files that reach the flush threshold: a free-form prefix, then uniform rows
ThresholdFiles ==
    {File(TRUE, prefix \o [i \in 1..n |-> "full"], TRUE) :
        prefix \in SeqsUpTo({"full", "empty", "blank"}, MaxPrefix),
        n \in (FlushThreshold - 1)..(FlushThreshold + MaxOver)}

\* small files of every shape
SmallFiles ==
    {File(TRUE, kinds, has_author) :
        kinds \in SeqsUpTo(RowKinds, MaxSmallRows), has_author \in BOOLEAN}

OptionalAuthor ==
    [name |-> Author, type |-> "text", required |-> FALSE, default_value |-> PyNone]

NoFile == File(FALSE, <<>>, TRUE)

\* the requests the API receives
ThresholdRequests ==
    {[endpoint |-> "/ingest-csv", db_type |-> "csv",
      csv_config |-> CsvConfig(OptionalAuthor, c), file |-> f] :
        c \in ChunkSizes, f \in ThresholdFiles}

SmallRequests ==
    {[endpoint |-> e, db_type |-> "csv", csv_config |-> CsvConfig(a, 2), file |-> f] :
        e \in {"/ingest-csv", "/ingest-data"}, a \in AuthorColumns, f \in SmallFiles}

MissingFileRequests ==
    {[endpoint |-> e, db_type |-> "csv",
      csv_config |-> CsvConfig(OptionalAuthor, DefaultChunkSize), file |-> NoFile] :
        e \in {"/ingest-csv", "/ingest-data"}}

\* a configuration whose text or metadata columns name an undeclared column
UndeclaredConfigs ==
    {[CsvConfig(OptionalAuthor, 2) EXCEPT !.text_columns = <<Title, <<"body">>>>],
     [CsvConfig(OptionalAuthor, 2) EXCEPT !.metadata_columns = <<(<<"tag">>)>>]}

\* requests over an existing file whose configuration names such a column
UndeclaredRequests ==
    {[endpoint |-> e, db_type |-> "csv", csv_config |-> c,
      file |-> File(TRUE, <<"full">>, TRUE)] :
        e \in {"/ingest-csv", "/ingest-data"}, c \in UndeclaredConfigs}

DatabaseRequests ==
    {[endpoint |-> "/ingest-data", db_type |-> t,
      csv_config |-> CsvConfig(OptionalAuthor, DefaultChunkSize), file |-> NoFile] :
        t \in {"postgresql", "mongodb"}}

\* entries persisted in the vector store directory by earlier sessions
PriorEntry(i) == [id |-> i, document |-> <<"old", ToString(i)>>, metadata |-> <<>>]
PriorIndexes == {[i \in 1..n |-> PriorEntry(i)] : n \in 0..MaxPrior}

----------------------------------------------------------------------------
(* State                                                                   *)

VARIABLES
    embedding_manager,  \* the sink RAGService was built with: class name
    collection,         \* EmbeddingManager.collection: "None" or "Collection"
    embedding_model,    \* EmbeddingManager.embedding_model: "None" or "Model"
    initPc,             \* position of initialize(): idle, loading, done, failed
    index,              \* the entries of the persistent collection, in add order
    nextId,             \* ids handed out so far (uuid4 never repeats)
    lastCall,           \* the latest direct add_documents/search_similar call
    req,                \* per run: the request
    pc,                 \* per run: position of the request / background task
    apiConn,            \* per run: the connector the endpoint opened
    conn,               \* per run: the connector the background task opened
    df,                 \* per run: CSVConnector.df of the task's connector
    start_idx,          \* per run: offset of the next chunk of fetch_in_chunks
    chunkHi,            \* per run: end_idx of the chunk being iterated
    pos,                \* per run: rows consumed from the source so far
    documents,          \* per run: accumulator of texts
    metadatas,          \* per run: accumulator of metadata mappings
    count,              \* per run: records counted as processed
    flushLog,           \* per run: the batches handed to add_documents, in call order
    err,                \* per run: the exception that ended the task ("none")
    connector,          \* a CSVConnector used directly: configuration, file, df, stage
    fetched,            \* the latest direct call on that connector and what it gave
    history,            \* ChatHistoryManager: history file -> the messages it holds
    clock,              \* messages stamped so far (datetime.now() never repeats)
    lastChat,           \* the latest call on the history manager / chat service
    gemini_client,      \* app/main.py: the global LLM client, which /api/llm/current reports
    rag_service,        \* the RAGService: its gemini_client and llm_client attributes
    clients,            \* LLM clients created so far
    lastLlm,            \* the latest call of /api/llm/switch or /api/llm/current
    stream,             \* the latest process_chat_request_stream: position, chunks yielded
    topic,              \* Kafka: the messages of each topic, in the order sent
    ingestion,          \* per DataIngestionWorker: offset, position in _process_ingestion
    embedder,           \* per EmbeddingWorker: offset, batch_buffer, whether it runs
    redis,              \* RedisStatusTracker: batch id -> the status stored
    statusOffset,       \* KafkaStatusConsumer: status messages applied so far
    api                 \* the latest call of /ingest-data-async

sinkVars == <<embedding_manager, collection, embedding_model, initPc, index, nextId, lastCall>>
runVars  == <<req, pc, apiConn, conn, df, start_idx, chunkHi, pos,
              documents, metadatas, count, flushLog, err>>
connVars == <<connector, fetched>>
llmVars  == <<gemini_client, rag_service, clients, lastLlm>>
streamVars == <<stream>>
workerVars == <<topic, ingestion, embedder, redis, statusOffset, api>>
restVars == <<llmVars, streamVars, workerVars>>
chatVars == <<history, clock, lastChat>>
vars     == <<embedding_manager, collection, embedding_model, initPc, index, nextId,
              lastCall, req, pc, apiConn, conn, df, start_idx, chunkHi, pos,
              documents, metadatas, count, flushLog, err,
              connector, fetched, history, clock, lastChat,
              gemini_client, rag_service, clients, lastLlm, stream,
              topic, ingestion, embedder, redis, statusOffset, api>>

NoCall == [op |-> "none", phase |-> "idle", outcome |-> "none", fault |-> FALSE,
           documents |-> <<>>, text_fields |-> <<>>, k |-> 0, count |-> 0,
           results |-> <<>>, before |-> <<>>]

NoDf == [columns |-> <<>>, rows |-> <<>>, loaded |-> FALSE]

Loaded(d) == [columns |-> d.columns, rows |-> d.rows, loaded |-> TRUE]

\* no request: the slot of a run that never starts
NoRequest ==
    [endpoint |-> "/ingest-csv", db_type |-> "csv",
     csv_config |-> CsvConfig(OptionalAuthor, DefaultChunkSize), file |-> NoFile]

\* the runs before their requests arrive; position "off": no request will
RunsInit(requests, positions) ==
    /\ req = requests
    /\ pc = positions
    /\ apiConn = [r \in RunIds |-> "none"]
    /\ conn = [r \in RunIds |-> "none"]
    /\ df = [r \in RunIds |-> NoDf]
    /\ start_idx = [r \in RunIds |-> 0]
    /\ chunkHi = [r \in RunIds |-> 0]
    /\ pos = [r \in RunIds |-> 0]
    /\ documents = [r \in RunIds |-> <<>>]
    /\ metadatas = [r \in RunIds |-> <<>>]
    /\ count = [r \in RunIds |-> 0]
    /\ flushLog = [r \in RunIds |-> <<>>]
    /\ err = [r \in RunIds |-> "none"]

\* one request, for run 1
RunInit(request, position) ==
    RunsInit([r \in RunIds |-> IF r = 1 THEN request ELSE NoRequest],
             [r \in RunIds |-> IF r = 1 THEN position ELSE "off"])

\* ChatRequest.user_name values; "." is neither alphanumeric nor - or _
Users == {<<"ann">>, <<"bob">>, <<"ann", ".">>}

\* the characters _get_user_history_file keeps
SafeChars == {"ann", "bob", "-", "_"}

\* _get_user_history_file(user_name): the name of the user's history file
SafeName(user_name) == SelectSeq(user_name, LAMBDA c : c \in SafeChars)

HistoryFiles == {SafeName(u) : u \in Users}

NoFetch == [op |-> "none", limit |-> 0, offset |-> 0, chunk_size |-> 0,
            outcome |-> "none", rows |-> <<>>, chunks |-> <<>>]

NoConnector == [csv_config |-> CsvConfig(OptionalAuthor, DefaultChunkSize),
                file |-> NoFile, df |-> NoDf, stage |-> "off", err |-> "none"]

\* an LLM client: the order in which it was created, and the "type" of its
\* get_client_info()
Client(id, type) == [id |-> id, type |-> type]

NoClient == Client(0, "None")

\* the client LLMFactory.create_client builds for a provider
ClientType(provider) == IF provider = "gemini" THEN "gemini" ELSE "custom_llm"

NoLlmCall == [op |-> "none", provider |-> "", outcome |-> "none", reported |-> NoClient]

NoChat == [op |-> "none", user |-> <<>>, limit |-> 0, outcome |-> "none",
           fault |-> FALSE, messages |-> <<>>, sources |-> <<>>, before |-> <<>>,
           client |-> NoClient]

\* lifespan: the client created at startup is the global one and the one the
\* RAGService is built with; llm_client is no attribute of the service yet
Startup(provider) ==
    /\ gemini_client = Client(1, ClientType(provider))
    /\ rag_service = [gemini_client |-> Client(1, ClientType(provider)),
                      llm_client |-> NoClient]
    /\ clients = 1
    /\ lastLlm = NoLlmCall

\* no streaming request: the generator of process_chat_request_stream has
\* not been created
NoStream == [pc |-> "none", user |-> <<>>, chat_history |-> <<>>, context |-> <<>>,
             generated |-> <<>>, taken |-> 0, full_response |-> <<>>,
             chunks |-> <<>>, before |-> <<>>]

\* run_workers.py: the workers WorkerManager starts by default
IngestionWorkers == 1..2
EmbeddingWorkers == 1..3

\* the batch ids of the ingestion requests
BatchIds == {"b1", "b2"}

NoTopics == [ingestion |-> <<>>, embedding |-> <<>>, status |-> <<>>, vector |-> <<>>]

NoIngestionMessage == [batch_id |-> "", rows |-> <<>>, text_fields |-> <<>>]

\* a DataIngestionWorker that was not started
IdleIngestion ==
    [pc |-> "off", offset |-> 0, message |-> NoIngestionMessage, position |-> 0,
     total_docs |-> 0, processed_docs |-> 0, emitted |-> <<>>]

\* an EmbeddingWorker that was not started
IdleEmbedder ==
    [running |-> FALSE, offset |-> 0, batch_buffer |-> <<>>, passed |-> 0]

NoApiCall == [op |-> "none", outcome |-> "none", batch_id |-> ""]

\* no worker runs, nothing is on the topics, no status is stored
WorkersOff ==
    /\ topic = NoTopics
    /\ ingestion = [w \in IngestionWorkers |-> IdleIngestion]
    /\ embedder = [e \in EmbeddingWorkers |-> IdleEmbedder]
    /\ redis = [b \in BatchIds |-> "none"]
    /\ statusOffset = 0
    /\ api = NoApiCall

\* the application runs with the default provider; no switch is requested,
\* no streaming request is made, the pipeline of the workers is not used
RestOff == Startup("gemini") /\ stream = NoStream /\ WorkersOff

\* no CSVConnector is used directly
ConnOff == connector = NoConnector /\ fetched = NoFetch

\* an empty chat history directory, and no chat request
ChatOff ==
    /\ history = [f \in HistoryFiles |-> <<>>]
    /\ clock = 0
    /\ lastChat = NoChat

\* the application after startup (lifespan in app/main.py): the sink has been
\* initialized, over whatever the vector store directory already holds, and
\* one ingestion request is about to arrive
Init ==
    /\ collection = "Collection"
    /\ embedding_model = "Model"
    /\ initPc = "done"
    /\ lastCall = NoCall
    /\ \/ /\ embedding_manager \in {"EmbeddingManager", "AsyncMock"}
          /\ index = <<>>
          /\ \E request \in ThresholdRequests : RunInit(request, "idle")
       \/ /\ embedding_manager \in {"EmbeddingManager", "AsyncMock"}
          /\ index \in PriorIndexes
          /\ \E request \in SmallRequests : RunInit(request, "idle")
       \/ /\ embedding_manager = "EmbeddingManager"
          /\ index = <<>>
          /\ \E request \in MissingFileRequests \cup UndeclaredRequests \cup DatabaseRequests :
                RunInit(request, "idle")
    /\ nextId = Len(index) + 1
    /\ ConnOff
    /\ RestOff
    /\ ChatOff

----------------------------------------------------------------------------
(* DatabaseFactory.create_connector: app/database/factory.py               *)

\* the exception raised ("ok" when none) and the dataframe the connector
\* holds; reachable: the database server accepts the connection
CreateConnector(request, reachable) ==
    IF request.db_type = "csv"
    THEN LET valid == ValidateConfig(request.csv_config, request.file)
         IN  IF valid # "ok" THEN [err |-> valid, df |-> NoDf]
             ELSE LET c == Connect(request.csv_config, request.file)
                  IN  IF c.err # "ok" THEN [err |-> c.err, df |-> NoDf]
                      ELSE [err |-> "ok", df |-> Loaded(c.df)]
    ELSE [err |-> IF reachable THEN "ok" ELSE "ConnectionError", df |-> NoDf]

----------------------------------------------------------------------------
(* The endpoints: app/main.py                                              *)

\* POST /ingest-csv
ingest_csv_data(r) ==
    /\ pc[r] = "idle"
    /\ req[r].endpoint = "/ingest-csv"
    /\ IF req[r].file.exists
       THEN /\ pc' = [pc EXCEPT ![r] = "scheduled"]
            /\ err' = err
       ELSE /\ pc' = [pc EXCEPT ![r] = "rejected"]
            /\ err' = [err EXCEPT ![r] = "HTTP 404"]
    /\ UNCHANGED <<req, apiConn, conn, df, start_idx, chunkHi, pos,
                   documents, metadatas, count, flushLog>>
    /\ UNCHANGED sinkVars
    /\ UNCHANGED <<connVars, chatVars, restVars>>

\* POST /ingest-data
ingest_data(r) ==
    /\ pc[r] = "idle"
    /\ req[r].endpoint = "/ingest-data"
    /\ \E reachable \in BOOLEAN :
        LET c == CreateConnector(req[r], reachable)
        IN  IF c.err = "ok"
            THEN /\ apiConn' = [apiConn EXCEPT ![r] = "connected"]
                 /\ pc' = [pc EXCEPT ![r] = "scheduled"]
                 /\ err' = err
            ELSE /\ apiConn' = apiConn
                 /\ pc' = [pc EXCEPT ![r] = "rejected"]
                 /\ err' = [err EXCEPT ![r] = "HTTP 500"]
    /\ UNCHANGED <<req, conn, df, start_idx, chunkHi, pos,
                   documents, metadatas, count, flushLog>>
    /\ UNCHANGED sinkVars
    /\ UNCHANGED <<connVars, chatVars, restVars>>

----------------------------------------------------------------------------
(* RAGService: app/chat/rag_service.py                                     *)

\* ingest_data_background up to the first await inside the ingestion method
ingest_data_background(r) ==
    /\ pc[r] = "scheduled"
    /\ \E reachable \in BOOLEAN :
        LET c == CreateConnector(req[r], reachable)
        IN  IF c.err = "ok"
            THEN /\ conn' = [conn EXCEPT ![r] = "connected"]
                 /\ df' = [df EXCEPT ![r] = c.df]
                 /\ pc' = [pc EXCEPT ![r] =
                            IF req[r].db_type = "csv" THEN "fetch" ELSE "db_fetch"]
                 /\ err' = err
            ELSE /\ pc' = [pc EXCEPT ![r] = "failed"]
                 /\ err' = [err EXCEPT ![r] = c.err]
                 /\ UNCHANGED <<conn, df>>
    /\ count' = [count EXCEPT ![r] = 0]
    /\ documents' = [documents EXCEPT ![r] = <<>>]
    /\ metadatas' = [metadatas EXCEPT ![r] = <<>>]
    /\ UNCHANGED <<req, apiConn, start_idx, chunkHi, pos, flushLog>>
    /\ UNCHANGED sinkVars
    /\ UNCHANGED <<connVars, chatVars, restVars>>

\* _ingest_database_data: PostgreSQLConnector and MongoDBConnector define no
\* fetch_data, the attribute lookup raises
ingest_database_data(r) ==
    /\ pc[r] = "db_fetch"
    /\ pc' = [pc EXCEPT ![r] = "failed"]
    /\ err' = [err EXCEPT ![r] = "AttributeError"]
    /\ UNCHANGED <<req, apiConn, conn, df, start_idx, chunkHi, pos,
                   documents, metadatas, count, flushLog>>
    /\ UNCHANGED sinkVars
    /\ UNCHANGED <<connVars, chatVars, restVars>>

\* where the loop of _ingest_csv_data stands once `pos` rows are consumed
LoopPc(r, consumed) == IF consumed >= chunkHi[r] THEN "fetch" ELSE "record"

\* `async for chunk in db_connector.fetch_in_chunks()`: the next chunk, or
\* the end of the source and the `if documents:` that follows the loop
fetch_in_chunks(r) ==
    /\ pc[r] = "fetch"
    /\ IF ~df[r].loaded
       THEN /\ pc' = [pc EXCEPT ![r] = "failed"]
            /\ err' = [err EXCEPT ![r] = "ValueError"]
            /\ UNCHANGED <<start_idx, chunkHi>>
       ELSE IF start_idx[r] < Len(df[r].rows)
       THEN /\ chunkHi' = [chunkHi EXCEPT ![r] =
                    ChunkEnd(start_idx[r], req[r].csv_config.chunk_size, Len(df[r].rows))]
            /\ start_idx' = [start_idx EXCEPT ![r] = @ + req[r].csv_config.chunk_size]
            /\ pc' = [pc EXCEPT ![r] = "record"]
            /\ err' = err
       ELSE /\ pc' = [pc EXCEPT ![r] =
                    IF documents[r] # <<>> THEN "final_flush" ELSE "finish"]
            /\ UNCHANGED <<start_idx, chunkHi, err>>
    /\ UNCHANGED <<req, apiConn, conn, df, pos, documents, metadatas, count, flushLog>>
    /\ UNCHANGED sinkVars
    /\ UNCHANGED <<connVars, chatVars, restVars>>

\* faulty variant: the threshold test written with > instead of >=
BatchFullOffByOne(docs) == Len(docs) > FlushThreshold

\* the threshold test `len(documents) >= 100`
BatchFull(docs) == Len(docs) >= FlushThreshold

\* faulty variant: every record is kept, whatever its text
HasTextAlways(text_content) == TRUE

\* `if text_content.strip():`
HasText(text_content) == Strip(text_content) # <<>>

\* one iteration of `for record in chunk`
process_record(r) ==
    /\ pc[r] = "record"
    /\ LET record       == CleanRecord(df[r].rows[pos[r] + 1])
           text_content == get_text_content(req[r].csv_config, record)
           keep         == HasText(text_content)
           docs         == IF keep THEN Append(documents[r], text_content)
                           ELSE documents[r]
       IN  /\ documents' = [documents EXCEPT ![r] = docs]
           /\ metadatas' = [metadatas EXCEPT ![r] =
                    IF keep THEN Append(@, get_metadata(req[r].csv_config, record)) ELSE @]
           /\ count' = [count EXCEPT ![r] = IF keep THEN @ + 1 ELSE @]
           /\ pos' = [pos EXCEPT ![r] = @ + 1]
           /\ pc' = [pc EXCEPT ![r] =
                    IF keep /\ BatchFull(docs) THEN "flush" ELSE LoopPc(r, pos[r] + 1)]
    /\ UNCHANGED <<req, apiConn, conn, df, start_idx, chunkHi, flushLog, err>>
    /\ UNCHANGED sinkVars
    /\ UNCHANGED <<connVars, chatVars, restVars>>

\* faulty variant: the accumulator is not reset after a flush
AfterFlushKeep(docs) == docs

\* the accumulator after add_documents returned: reset inside the loop; after
\* the loop the method returns and its locals are gone
AfterFlush(docs) == <<>>

\* faulty variant: the exception of the sink is swallowed and the loop goes on
AfterAddSwallow(outcome, next) == next

\* where the task stands after the awaited add_documents: an exception of
\* the sink propagates out of the ingestion method and of the task
AfterAdd(outcome, next) == IF outcome = "ok" THEN next ELSE "failed"

\* `await self.embedding_manager.add_documents(documents, metadatas)`, in the
\* loop (pc = "flush") or after it (pc = "final_flush")
flush(r) ==
    /\ pc[r] \in {"flush", "final_flush"}
    /\ flushLog' = [flushLog EXCEPT ![r] =
            Append(@, [documents |-> documents[r], metadatas |-> metadatas[r]])]
    /\ \E fault \in BOOLEAN :
        LET res == IF embedding_manager = "AsyncMock"
                   THEN [outcome |-> "ok", texts |-> <<>>, metadatas |-> <<>>]
                   ELSE AddDocuments(collection, embedding_model,
                            [i \in 1..Len(documents[r]) |-> PyStr(documents[r][i])],
                            [i \in 1..Len(metadatas[r]) |-> PyDict(metadatas[r][i])],
                            fault)
        IN  /\ index' = index \o NewEntries(res.texts, res.metadatas, nextId)
            /\ nextId' = nextId + Len(res.texts)
            /\ pc' = [pc EXCEPT ![r] = AfterAdd(res.outcome,
                            IF pc[r] = "flush" THEN LoopPc(r, pos[r]) ELSE "finish")]
            /\ err' = [err EXCEPT ![r] = IF res.outcome = "ok" THEN @ ELSE res.outcome]
            /\ IF pc'[r] = "failed"
               THEN UNCHANGED <<documents, metadatas>>
               ELSE /\ documents' = [documents EXCEPT ![r] = AfterFlush(@)]
                    /\ metadatas' = [metadatas EXCEPT ![r] = AfterFlush(@)]
    /\ UNCHANGED <<req, apiConn, conn, df, start_idx, chunkHi, pos, count>>
    /\ UNCHANGED <<embedding_manager, collection, embedding_model, initPc, lastCall>>
    /\ UNCHANGED <<connVars, chatVars, restVars>>

\* back in ingest_data_background: `await db_connector.disconnect()`
disconnect(r) ==
    /\ pc[r] = "finish"
    /\ conn' = [conn EXCEPT ![r] = "disconnected"]
    /\ pc' = [pc EXCEPT ![r] = "done"]
    /\ UNCHANGED <<req, apiConn, df, start_idx, chunkHi, pos,
                   documents, metadatas, count, flushLog, err>>
    /\ UNCHANGED sinkVars
    /\ UNCHANGED <<connVars, chatVars, restVars>>

Next ==
    \E r \in RunIds :
        \/ ingest_csv_data(r)
        \/ ingest_data(r)
        \/ ingest_data_background(r)
        \/ ingest_database_data(r)
        \/ fetch_in_chunks(r)
        \/ process_record(r)
        \/ flush(r)
        \/ disconnect(r)

Spec == Init /\ [][Next]_vars

----------------------------------------------------------------------------
(* Two ingestion requests in flight at once: their background tasks        *)
(* interleave at the awaits                                                *)

PairFiles ==
    {File(TRUE, kinds, TRUE) : kinds \in SeqsUpTo({"full", "empty"}, MaxPairRows)}

PairRequests ==
    {[endpoint |-> e, db_type |-> "csv", csv_config |-> CsvConfig(OptionalAuthor, 2),
      file |-> f] :
        e \in {"/ingest-csv", "/ingest-data"}, f \in PairFiles}

\* the application after startup, over an empty vector store directory; two
\* ingestion requests are about to arrive
InitPair ==
    /\ embedding_manager \in {"EmbeddingManager", "AsyncMock"}
    /\ collection = "Collection"
    /\ embedding_model = "Model"
    /\ initPc = "done"
    /\ lastCall = NoCall
    /\ index = <<>>
    /\ nextId = 1
    /\ \E first \in PairRequests, second \in PairRequests :
            RunsInit([r \in RunIds |-> IF r = 1 THEN first ELSE second],
                     [r \in RunIds |-> "idle"])
    /\ ConnOff
    /\ RestOff
    /\ ChatOff

NextPair ==
    \E r \in RunIds :
        \/ ingest_csv_data(r)
        \/ ingest_data(r)
        \/ ingest_data_background(r)
        \/ fetch_in_chunks(r)
        \/ process_record(r)
        \/ flush(r)
        \/ disconnect(r)

SpecPair == InitPair /\ [][NextPair]_vars

----------------------------------------------------------------------------
(* The sink on its own: initialize(), and add_documents / search_similar   *)
(* called directly (EmbeddingWorker._process_embedding_batch in            *)
(* app/messaging/consumers.py, examples/demo_mode.py, the chat requests)   *)

Ready == ~NotInitialized(collection, embedding_model)

\* documents and text_fields the direct callers pass
DocAlpha == PyDict(<< <<Content, PyStr(<<"alpha">>)>>, <<(<<"category">>), PyNone>> >>)
DocBlank == PyDict(<< <<Title, PyNone>>, <<Content, PyStr(<<" ">>)>> >>)
DocBeta  == PyDict(<< <<Title, PyStr(<<"t">>)>>, <<Content, PyStr(<<" ", "beta">>)>> >>)

DocGamma ==
    PyDict(<< <<Content, PyStr(<<"gamma">>)>>,
              <<(<<"category">>), PyNone>>,
              <<(<<"tags">>), PyList(<<PyStr(<<"a">>), PyStr(<<"b">>)>>)>>,
              <<(<<"extra">>), PyDict(<< <<(<<"k">>), PyStr(<<"v">>)>> >>)>> >>)

DirectCalls ==
    {[documents |-> docs, text_fields |-> fields] :
        docs \in SeqsUpTo({DocAlpha, DocBlank, DocBeta, DocGamma}, 2),
        fields \in {<<PyStr(Content)>>, <<PyStr(Title), PyStr(Content)>>}}
    \cup
    \* the argument shapes of the ingestion pipeline: texts and metadata mappings
    {[documents |-> <<PyStr(<<"alpha">>)>>,
      text_fields |-> << PyDict(<< <<(<<"source">>), PyStr(<<"csv">>)>> >>) >>]}

\* initialize(): the client and the collection, up to the await of the model
initialize(ok) ==
    /\ initPc = "idle"
    /\ IF ok
       THEN /\ collection' = "Collection"
            /\ initPc' = "loading"
       ELSE /\ collection' = collection
            /\ initPc' = "failed"
    /\ UNCHANGED <<embedding_manager, embedding_model, index, nextId, lastCall>>
    /\ UNCHANGED runVars
    /\ UNCHANGED <<connVars, chatVars, restVars>>

\* _initialize_embedding_model(): the executor returns the model, or raises
initialize_embedding_model(ok) ==
    /\ initPc = "loading"
    /\ IF ok
       THEN /\ embedding_model' = "Model"
            /\ initPc' = "done"
       ELSE /\ embedding_model' = embedding_model
            /\ initPc' = "failed"
    /\ UNCHANGED <<embedding_manager, collection, index, nextId, lastCall>>
    /\ UNCHANGED runVars
    /\ UNCHANGED <<connVars, chatVars, restVars>>

\* add_documents(documents, text_fields), called directly
add_documents(call, fault) ==
    LET res == AddDocuments(collection, embedding_model,
                            call.documents, call.text_fields, fault)
    IN  /\ Len(index) + Len(res.texts) <= MaxIndex
        /\ index' = index \o NewEntries(res.texts, res.metadatas, nextId)
        /\ nextId' = nextId + Len(res.texts)
        /\ lastCall' = [op |-> "add_documents", phase |-> initPc,
                        outcome |-> res.outcome, fault |-> fault,
                        documents |-> call.documents, text_fields |-> call.text_fields,
                        k |-> 0, count |-> Len(res.texts), results |-> <<>>,
                        before |-> index]
        /\ UNCHANGED <<embedding_manager, collection, embedding_model, initPc>>
        /\ UNCHANGED runVars
        /\ UNCHANGED <<connVars, chatVars, restVars>>

\* the n_results handed to collection.query
ClampResults(n_results, size) == Min(n_results, size)

\* the sequences of n distinct positions of the index: the neighbours the
\* store may return, in the order it ranks them
Rankings(n, size) ==
    {s \in [1..n -> 1..size] : \A i, j \in 1..n : i # j => s[i] # s[j]}

\* faulty variant: a failure of the model or of the store yields no results
SearchSimilarSwallow(coll, model, entries, n_results, fault, rejects_zero, ranking) ==
    IF NotInitialized(coll, model)
    THEN [outcome |-> "ValueError", results |-> <<>>]
    ELSE IF fault \/ ClampResults(n_results, Len(entries)) = 0
    THEN [outcome |-> "ok", results |-> <<>>]
    ELSE [outcome |-> "ok",
          results |-> [i \in 1..ClampResults(n_results, Len(entries)) |->
                [content  |-> entries[ranking[i]].document,
                 metadata |-> entries[ranking[i]].metadata,
                 id       |-> entries[ranking[i]].id]]]

\* search_similar(query, n_results); fault: the embedding model or the store
\* raises; rejects_zero: the store refuses a query for n_results = 0
SearchSimilar(coll, model, entries, n_results, fault, rejects_zero, ranking) ==
    IF NotInitialized(coll, model)
    THEN [outcome |-> "ValueError", results |-> <<>>]
    ELSE IF fault
    THEN [outcome |-> "EmbeddingOrIndexFailure", results |-> <<>>]
    ELSE LET n == ClampResults(n_results, Len(entries))
         IN  IF n = 0
             THEN (IF rejects_zero
                   THEN [outcome |-> "EmbeddingOrIndexFailure", results |-> <<>>]
                   ELSE [outcome |-> "ok", results |-> <<>>])
             ELSE [outcome |-> "ok",
                   results |-> [i \in 1..n |->
                        [content  |-> entries[ranking[i]].document,
                         metadata |-> entries[ranking[i]].metadata,
                         id       |-> entries[ranking[i]].id]]]

\* search_similar(query, n_results), called directly
search_similar(n_results, fault, rejects_zero) ==
    \E ranking \in Rankings(ClampResults(n_results, Len(index)), Len(index)) :
        LET res == SearchSimilar(collection, embedding_model, index,
                                 n_results, fault, rejects_zero, ranking)
        IN  /\ lastCall' = [op |-> "search_similar", phase |-> initPc,
                            outcome |-> res.outcome, fault |-> fault,
                            documents |-> <<>>, text_fields |-> <<>>,
                            k |-> n_results, count |-> 0, results |-> res.results,
                            before |-> index]
            /\ UNCHANGED <<embedding_manager, collection, embedding_model, initPc,
                           index, nextId>>
            /\ UNCHANGED runVars
            /\ UNCHANGED <<connVars, chatVars, restVars>>

\* a freshly constructed EmbeddingManager over an empty vector store
\* directory; no ingestion request is in progress
InitSink ==
    /\ embedding_manager = "EmbeddingManager"
    /\ collection = "None"
    /\ embedding_model = "None"
    /\ initPc = "idle"
    /\ index = <<>>
    /\ nextId = 1
    /\ lastCall = NoCall
    /\ RunInit(CHOOSE request \in MissingFileRequests : TRUE, "off")
    /\ ConnOff
    /\ RestOff
    /\ ChatOff

NextSink ==
    \/ \E ok \in BOOLEAN : initialize(ok)
    \/ \E ok \in BOOLEAN : initialize_embedding_model(ok)
    \/ \E call \in DirectCalls, fault \in BOOLEAN : add_documents(call, fault)
    \/ \E n_results \in 1..MaxK, fault \in BOOLEAN, rejects_zero \in BOOLEAN :
            search_similar(n_results, fault, rejects_zero)

SpecSink == InitSink /\ [][NextSink]_vars

----------------------------------------------------------------------------
(* ChatHistoryManager: app/chat/history_manager.py                         *)

\* `if len(history) > 100: history = history[-100:]`
HistoryCap == 100

\* get_history(user_name, limit=10)
DefaultHistoryLimit == 10

\* faulty variant: nothing is dropped
KeepAll(h, n) == h

\* the last n elements of a sequence
LastN(h, n) == SubSeq(h, Len(h) - Min(n, Len(h)) + 1, Len(h))

\* Python's h[-limit:] for limit >= 0: -0 is 0, and h[0:] is all of h
SliceFromMinus(h, limit) == IF limit = 0 THEN h ELSE LastN(h, limit)

\* _load_history(history_file): the messages of the file, [] when it is missing
LoadHistory(h, history_file) == h[history_file]

\* get_history(user_name, limit)
GetHistory(h, user_name, limit) ==
    LET loaded == LoadHistory(h, SafeName(user_name))
    IN  IF loaded # <<>> THEN SliceFromMinus(loaded, limit) ELSE <<>>

\* faulty variant: the message is not written
AddMessageDrop(h, user_name, role, content, metadata, now) == h

\* add_message(user_name, role, content, metadata) at time now: the files after it
AddMessage(h, user_name, role, content, metadata, now) ==
    LET history_file == SafeName(user_name)
        message  == [role |-> role, content |-> content,
                     timestamp |-> now, metadata |-> metadata]
        appended == Append(LoadHistory(h, history_file), message)
    IN  [h EXCEPT ![history_file] =
            IF Len(appended) > HistoryCap THEN LastN(appended, HistoryCap) ELSE appended]

\* messages left in the history directory by earlier sessions
StoredMessage(i) ==
    [role |-> IF i % 2 = 1 THEN "user" ELSE "assistant", content |-> <<"old">>,
     timestamp |-> i, metadata |-> <<>>]

\* short files for every user, or one long-standing user whose file is at
\* the cap or one message short of it
ShortHistories ==
    [HistoryFiles -> {[i \in 1..n |-> StoredMessage(i)] : n \in 0..MaxStored}]

StoredHistories ==
    ShortHistories
    \cup {[f \in HistoryFiles |->
                IF f = SafeName(<<"ann">>) THEN [i \in 1..n |-> StoredMessage(i)] ELSE <<>>] :
            n \in {HistoryCap - 1, HistoryCap}}

\* add_message, called directly
add_message(user_name, role) ==
    /\ clock < HistoryCap + MaxNew
    /\ history' = AddMessage(history, user_name, role, <<"hello">>, <<>>, clock + 1)
    /\ clock' = clock + 1
    /\ lastChat' = [op |-> "add_message", user |-> user_name, limit |-> 0,
                    outcome |-> "ok", fault |-> FALSE, messages |-> <<>>,
                    sources |-> <<>>, before |-> history[SafeName(user_name)],
                    client |-> NoClient]
    /\ UNCHANGED <<sinkVars, runVars, connVars, restVars>>

\* get_history, called directly (GET /chat/history/{user_name})
get_history(user_name, limit) ==
    /\ lastChat' = [op |-> "get_history", user |-> user_name, limit |-> limit,
                    outcome |-> "ok", fault |-> FALSE,
                    messages |-> GetHistory(history, user_name, limit),
                    sources |-> <<>>, before |-> history[SafeName(user_name)],
                    client |-> NoClient]
    /\ UNCHANGED <<history, clock>>
    /\ UNCHANGED <<sinkVars, runVars, connVars, restVars>>

\* clear_history(user_name): the file is removed
clear_history(user_name) ==
    /\ history[SafeName(user_name)] # <<>>
    /\ history' = [history EXCEPT ![SafeName(user_name)] = <<>>]
    /\ lastChat' = [op |-> "clear_history", user |-> user_name, limit |-> 0,
                    outcome |-> "ok", fault |-> FALSE, messages |-> <<>>,
                    sources |-> <<>>, before |-> history[SafeName(user_name)],
                    client |-> NoClient]
    /\ UNCHANGED clock
    /\ UNCHANGED <<sinkVars, runVars, connVars, restVars>>

----------------------------------------------------------------------------
(* RAGService.process_chat_request: app/chat/rag_service.py                *)

\* the sources of the response: content and metadata of the context documents
Sources(context_documents) ==
    [i \in 1..Len(context_documents) |->
        [content |-> context_documents[i].content,
         metadata |-> context_documents[i].metadata]]

\* client.generate_response(question, context_documents, chat_history), as
\* the RAGService calls it: a GeminiClient takes the three arguments; the
\* custom clients define generate_response(self, prompt, **kwargs) and
\* refuse the positional arguments
GenerateResponse(client, llm_ok) ==
    IF client.type # "gemini" THEN "TypeError"
    ELSE IF llm_ok THEN "ok" ELSE "LLMError"

\* process_chat_request(request); fault: the embedding model or the store
\* raises during the search; llm_ok: the provider answers
process_chat_request(user_name, max_results, include_history, fault, rejects_zero, llm_ok) ==
    /\ clock + 2 <= HistoryCap + MaxNew
    /\ \E ranking \in Rankings(ClampResults(max_results, Len(index)), Len(index)) :
        LET chat_history == IF include_history
                            THEN GetHistory(history, user_name, DefaultHistoryLimit)
                            ELSE <<>>
            search == SearchSimilar(collection, embedding_model, index,
                                    max_results, fault, rejects_zero, ranking)
            outcome == IF search.outcome # "ok" THEN search.outcome
                       ELSE GenerateResponse(rag_service.gemini_client, llm_ok)
            asked == AddMessage(history, user_name, "user", <<"question">>, <<>>, clock + 1)
            answered == AddMessage(asked, user_name, "assistant", <<"answer">>,
                                   [i \in 1..Len(search.results) |->
                                        search.results[i].metadata], clock + 2)
        IN  /\ lastChat' = [op |-> "process_chat_request", user |-> user_name,
                            limit |-> max_results, outcome |-> outcome, fault |-> fault,
                            messages |-> chat_history,
                            sources |-> IF outcome = "ok" THEN Sources(search.results)
                                        ELSE <<>>,
                            before |-> history[SafeName(user_name)],
                            client |-> IF search.outcome = "ok"
                                       THEN rag_service.gemini_client ELSE NoClient]
            /\ IF outcome = "ok"
               THEN history' = answered /\ clock' = clock + 2
               ELSE UNCHANGED <<history, clock>>
    /\ UNCHANGED <<sinkVars, runVars, connVars, restVars>>

\* the application after startup, with the history directory and the vector
\* store directory as earlier sessions left them; no ingestion request
InitChat ==
    /\ embedding_manager = "EmbeddingManager"
    /\ collection = "Collection"
    /\ embedding_model = "Model"
    /\ initPc = "done"
    /\ index \in PriorIndexes
    /\ nextId = Len(index) + 1
    /\ lastCall = NoCall
    /\ RunInit(NoRequest, "off")
    /\ ConnOff
    /\ RestOff
    /\ history \in StoredHistories
    /\ clock = HistoryCap
    /\ lastChat = NoChat

NextChat ==
    \/ \E u \in Users, role \in {"user", "assistant"} : add_message(u, role)
    \/ \E u \in Users, limit \in 0..MaxLimit : get_history(u, limit)
    \/ \E u \in Users : clear_history(u)
    \* rejects_zero matters over an empty index only, llm_ok when the search
    \* has not raised
    \/ \E u \in Users, k \in 1..MaxK, include_history \in BOOLEAN, fault \in BOOLEAN :
        \E rejects_zero \in {b \in BOOLEAN : b => index = <<>>},
           llm_ok \in {b \in BOOLEAN : fault => b} :
            process_chat_request(u, k, include_history, fault, rejects_zero, llm_ok)

SpecChat == InitChat /\ [][NextChat]_vars

----------------------------------------------------------------------------
(* The LLM endpoints: app/main.py, app/ai/llm_factory.py                   *)

\* the "provider" of a switch request: none, the supported ones, another
Providers == {"", "gemini", "ollama", "custom", "other"}

\* LLMFactory.create_client(provider, ...): "ok" or the exception raised;
\* has_params: the request (or the settings) carry the API key of gemini,
\* the model name and the endpoint of a custom provider
CreateClient(provider, has_params) ==
    CASE provider = "gemini" -> IF has_params THEN "ok" ELSE "ValueError"
      [] provider = "ollama" -> "ok"
      [] provider = "custom" -> IF has_params THEN "ok" ELSE "ValueError"
      [] OTHER               -> "ValueError"

\* new_client.generate_response("Test message", context=...): a GeminiClient
\* has no parameter `context`; a custom client posts the request
TestCall(client, test_ok) ==
    IF client.type = "gemini" THEN "TypeError"
    ELSE IF test_ok THEN "ok" ELSE "Exception"

\* POST /api/llm/switch
switch_llm_provider(provider, has_params, test_ok) ==
    LET created    == provider # "" /\ CreateClient(provider, has_params) = "ok"
        new_client == Client(clients + 1, ClientType(provider))
        outcome    == IF provider = "" THEN "HTTP 500"   \* the HTTPException(400) is
                                                         \* caught by `except Exception`
                      ELSE IF ~created THEN "HTTP 400"
                      ELSE IF TestCall(new_client, test_ok) # "ok" THEN "HTTP 500"
                      ELSE "success"
    IN  /\ clients < MaxClients
        /\ clients' = IF created THEN clients + 1 ELSE clients
        /\ IF outcome = "success"
           THEN /\ gemini_client' = new_client
                /\ rag_service' = [rag_service EXCEPT !.llm_client = new_client]
           ELSE UNCHANGED <<gemini_client, rag_service>>
        /\ lastLlm' = [op |-> "switch", provider |-> provider, outcome |-> outcome,
                       reported |-> IF outcome = "success" THEN new_client ELSE NoClient]
        /\ UNCHANGED <<sinkVars, runVars, connVars, chatVars, streamVars, workerVars>>

\* GET /api/llm/current
get_current_llm ==
    /\ lastLlm' = [op |-> "current", provider |-> "", outcome |-> "active",
                   reported |-> gemini_client]
    /\ UNCHANGED <<gemini_client, rag_service, clients>>
    /\ UNCHANGED <<sinkVars, runVars, connVars, chatVars, streamVars, workerVars>>

\* the application after startup with the configured provider, the history
\* directory empty
InitLlm ==
    /\ embedding_manager = "EmbeddingManager"
    /\ collection = "Collection"
    /\ embedding_model = "Model"
    /\ initPc = "done"
    /\ index \in PriorIndexes
    /\ nextId = Len(index) + 1
    /\ lastCall = NoCall
    /\ RunInit(NoRequest, "off")
    /\ connector = NoConnector
    /\ fetched = NoFetch
    /\ history = [f \in HistoryFiles |-> <<>>]
    /\ clock = HistoryCap
    /\ lastChat = NoChat
    /\ \E provider \in {"gemini", "ollama"} : Startup(provider)
    /\ stream = NoStream
    /\ WorkersOff

NextLlm ==
    \/ \E provider \in Providers, has_params \in BOOLEAN, test_ok \in BOOLEAN :
            switch_llm_provider(provider, has_params, test_ok)
    \/ get_current_llm
    \/ \E u \in Users, include_history \in BOOLEAN, fault \in BOOLEAN, llm_ok \in BOOLEAN :
            process_chat_request(u, 1, include_history, fault, FALSE, llm_ok)

SpecLlm == InitLlm /\ [][NextLlm]_vars

----------------------------------------------------------------------------
(* RAGService.process_chat_request_stream: app/chat/rag_service.py         *)

\* a chunk the generator yields
Chunk(type, content, sources) == [type |-> type, content |-> content, sources |-> sources]

\* faulty variant: the chunk overtakes those yielded before it
EmitFirst(chunks, chunk) == <<chunk>> \o chunks

\* `yield chunk`: the consumer receives the chunk after those yielded before
Emit(chunks, chunk) == Append(chunks, chunk)

\* the texts of the chunks the provider streams for an answer: the text of
\* chunk i is its number, or the chunk carries no text
GeneratedAnswers ==
    UNION {{[i \in 1..n |-> IF i \in empty THEN "" ELSE ToString(i)] :
                empty \in SUBSET (1..n)} : n \in 0..MaxChunks}

Streaming == stream.pc = "generating"

\* the request up to its first yield: the history, the search, the sources
stream_open(user_name, max_results, include_history, fault, rejects_zero, generated) ==
    /\ stream.pc = "none"
    /\ \E ranking \in Rankings(ClampResults(max_results, Len(index)), Len(index)) :
        LET chat_history == IF include_history
                            THEN GetHistory(history, user_name, DefaultHistoryLimit)
                            ELSE <<>>
            search == SearchSimilar(collection, embedding_model, index,
                                    max_results, fault, rejects_zero, ranking)
        IN  stream' = [pc |-> IF search.outcome = "ok" THEN "generating" ELSE "closed",
                       user |-> user_name,
                       chat_history |-> chat_history,
                       context |-> search.results,
                       generated |-> generated,
                       taken |-> 0,
                       full_response |-> <<>>,
                       chunks |-> IF search.outcome = "ok"
                                  THEN Emit(<<>>, Chunk("sources", <<>>, Sources(search.results)))
                                  ELSE Emit(<<>>, Chunk("error", <<search.outcome>>, <<>>)),
                       before |-> history[SafeName(user_name)]]
    /\ UNCHANGED <<sinkVars, runVars, connVars, chatVars, llmVars, workerVars>>

\* `async for chunk in self.gemini_client.generate_response_stream(...)`: the
\* next chunk of the provider; one without text is passed over
stream_content ==
    /\ Streaming
    /\ rag_service.gemini_client.type = "gemini"
    /\ stream.taken < Len(stream.generated)
    /\ LET chunk == stream.generated[stream.taken + 1]
       IN  stream' = [stream EXCEPT
                !.taken = @ + 1,
                !.full_response = IF chunk # "" THEN Append(@, chunk) ELSE @,
                !.chunks = IF chunk # "" THEN Emit(@, Chunk("content", <<chunk>>, <<>>))
                           ELSE @]
    /\ UNCHANGED <<sinkVars, runVars, connVars, chatVars, llmVars, workerVars>>

\* the provider raises while the answer is generated, or the client does not
\* take the arguments of the call: `except Exception` yields the error
stream_fail(llm_ok) ==
    /\ Streaming
    /\ GenerateResponse(rag_service.gemini_client, llm_ok) # "ok"
    /\ stream' = [stream EXCEPT
            !.pc = "closed",
            !.chunks = Emit(@, Chunk("error",
                        <<GenerateResponse(rag_service.gemini_client, llm_ok)>>, <<>>))]
    /\ UNCHANGED <<sinkVars, runVars, connVars, chatVars, llmVars, workerVars>>

\* the provider's stream is exhausted: the two messages are saved, then the
\* done chunk is yielded
stream_done ==
    /\ Streaming
    /\ rag_service.gemini_client.type = "gemini"
    /\ stream.taken = Len(stream.generated)
    /\ LET asked == AddMessage(history, stream.user, "user", <<"question">>, <<>>, clock + 1)
           answered == AddMessage(asked, stream.user, "assistant", stream.full_response,
                                  [i \in 1..Len(stream.context) |->
                                        stream.context[i].metadata], clock + 2)
       IN  history' = answered
    /\ clock' = clock + 2
    /\ stream' = [stream EXCEPT !.pc = "closed",
                                !.chunks = Emit(@, Chunk("done", stream.user, <<>>))]
    /\ UNCHANGED lastChat
    /\ UNCHANGED <<sinkVars, runVars, connVars, llmVars, workerVars>>

\* the application after startup with the configured provider, over the
\* histories and the index earlier sessions left; one streaming request is
\* about to arrive
InitStream ==
    /\ embedding_manager = "EmbeddingManager"
    /\ collection = "Collection"
    /\ embedding_model = "Model"
    /\ initPc = "done"
    /\ index \in PriorIndexes
    /\ nextId = Len(index) + 1
    /\ lastCall = NoCall
    /\ RunInit(NoRequest, "off")
    /\ connector = NoConnector
    /\ fetched = NoFetch
    /\ history \in ShortHistories
    /\ clock = HistoryCap
    /\ lastChat = NoChat
    /\ \E provider \in {"gemini", "ollama"} : Startup(provider)
    /\ stream = NoStream
    /\ WorkersOff

NextStream ==
    \/ \E u \in {<<"ann">>, <<"bob">>}, include_history \in BOOLEAN, fault \in BOOLEAN,
          generated \in GeneratedAnswers :
            stream_open(u, 1, include_history, fault, FALSE, generated)
    \/ stream_content
    \/ \E llm_ok \in BOOLEAN : stream_fail(llm_ok)
    \/ stream_done

SpecStream == InitStream /\ [][NextStream]_vars

----------------------------------------------------------------------------
(* A CSVConnector used directly, as the tests and the validation           *)
(* endpoints use it: construct, connect, fetch, disconnect                 *)

\* `limit: Optional[int] = None`
NoLimit == -1

Value == <<"value">>

ColumnTypes == {"integer", "float", "boolean", "json", "datetime"}

\* the cells of a column of the given type: missing, well-formed and malformed
RawCellsOf(type) ==
    CASE type = "integer"  -> {PyNaN, PyStr(<<"42">>), PyStr(<<"1.5">>),
                               PyStr(<<"abc">>), PyStr(<<"inf">>)}
      [] type = "float"    -> {PyNaN, PyStr(<<"1.5">>), PyStr(<<"abc">>)}
      [] type = "boolean"  -> {PyNaN, PyStr(<<"Yes">>), PyStr(<<"1">>), PyStr(<<"maybe">>)}
      [] type = "json"     -> {PyNaN, PyStr(<<"{\"a\": \"b\"}">>), PyStr(<<"{bad">>)}
      [] type = "datetime" -> {PyNaN, PyStr(<<"2024-01-01">>), PyStr(<<"notadate">>)}

TypedConfig(type, default_value) ==
    [file_path        |-> <<"data.csv">>,
     columns          |-> <<TextColumn(Title),
                            [name |-> Value, type |-> type, required |-> FALSE,
                             default_value |-> default_value]>>,
     text_columns     |-> <<Title>>,
     metadata_columns |-> <<Value>>,
     chunk_size       |-> 2]

TypedFile(cells) ==
    [exists |-> TRUE,
     header |-> <<Title, Value>>,
     rows   |-> [i \in 1..Len(cells) |-> <<PyStr(<<ToString(i)>>), cells[i]>>]]

\* files with one typed column, under a configuration that declares its type
TypedInputs ==
    UNION {{[csv_config |-> TypedConfig(type, default_value), file |-> TypedFile(cells)] :
                default_value \in {PyNone, PyInt(<<"7">>)},
                cells \in UNION {[1..n -> RawCellsOf(type)] : n \in 1..MaxTypedRows}} :
           type \in ColumnTypes}

\* text files of 0..MaxFetchRows rows
PlainInputs ==
    {[csv_config |-> CsvConfig(OptionalAuthor, c),
      file |-> File(TRUE, [i \in 1..n |-> "full"], TRUE)] :
        c \in ChunkSizes, n \in 0..MaxFetchRows}

InvalidInputs ==
    {[csv_config |-> CsvConfig(OptionalAuthor, DefaultChunkSize), file |-> NoFile]}
    \cup {[csv_config |-> c, file |-> File(TRUE, <<"full">>, TRUE)] : c \in UndeclaredConfigs}

\* s without its first n elements
DropFirst(s, n) == SubSeq(s, Min(n, Len(s)) + 1, Len(s))

\* DataFrame.head(n), n >= 0
FirstN(s, n) == SubSeq(s, 1, Min(n, Len(s)))

\* fetch_data(table, columns=None, limit, offset) on a loaded dataframe
FetchData(rows, limit, offset) ==
    LET skipped == IF offset > 0 THEN DropFirst(rows, offset) ELSE rows
        working == IF limit # NoLimit /\ limit # 0 THEN FirstN(skipped, limit) ELSE skipped
    IN  [i \in 1..Len(working) |-> CleanRecord(working[i])]

\* the chunks fetch_in_chunks yields from offset start_idx on
RECURSIVE Chunks(_, _, _)
Chunks(rows, offset, chunk_size) ==
    IF offset >= Len(rows) THEN <<>>
    ELSE LET end_idx == ChunkEnd(offset, chunk_size, Len(rows))
         IN  <<[i \in 1..(end_idx - offset) |-> CleanRecord(rows[offset + i])]>>
                \o Chunks(rows, offset + chunk_size, chunk_size)

\* CSVConnector(csv_config): the constructor validates the configuration
construct ==
    /\ connector.stage = "none"
    /\ LET valid == ValidateConfig(connector.csv_config, connector.file)
       IN  connector' = [connector EXCEPT
                !.stage = IF valid = "ok" THEN "new" ELSE "invalid",
                !.err = IF valid = "ok" THEN "none" ELSE valid]
    /\ UNCHANGED fetched
    /\ UNCHANGED <<sinkVars, runVars, chatVars, restVars>>

\* connect(): self.df is assigned before it is processed, and stays assigned
\* when the processing raises
connect ==
    /\ connector.stage = "new"
    /\ LET c == Connect(connector.csv_config, connector.file)
       IN  connector' = [connector EXCEPT
                !.stage = IF c.err = "ok" THEN "connected" ELSE "failed",
                !.err = IF c.err = "ok" THEN "none" ELSE c.err,
                !.df = Loaded(c.df)]
    /\ UNCHANGED fetched
    /\ UNCHANGED <<sinkVars, runVars, chatVars, restVars>>

Constructed == connector.stage \in {"new", "connected", "failed", "disconnected"}

\* fetch_data("dummy", limit=limit, offset=offset)
fetch_data(limit, offset) ==
    /\ Constructed
    /\ fetched' = [op |-> "fetch_data", limit |-> limit, offset |-> offset,
                   chunk_size |-> 0,
                   outcome |-> IF connector.df.loaded THEN "ok" ELSE "ValueError",
                   rows |-> IF connector.df.loaded
                            THEN FetchData(connector.df.rows, limit, offset) ELSE <<>>,
                   chunks |-> <<>>]
    /\ UNCHANGED connector
    /\ UNCHANGED <<sinkVars, runVars, chatVars, restVars>>

\* [chunk async for chunk in fetch_in_chunks(chunk_size)]; chunk_size 0: None
fetch_all_chunks(chunk_size) ==
    /\ Constructed
    /\ fetched' = [op |-> "fetch_in_chunks", limit |-> NoLimit, offset |-> 0,
                   chunk_size |-> chunk_size,
                   outcome |-> IF connector.df.loaded THEN "ok" ELSE "ValueError",
                   rows |-> <<>>,
                   chunks |-> IF connector.df.loaded
                              THEN Chunks(connector.df.rows, 0,
                                          IF chunk_size # 0 THEN chunk_size
                                          ELSE connector.csv_config.chunk_size)
                              ELSE <<>>]
    /\ UNCHANGED connector
    /\ UNCHANGED <<sinkVars, runVars, chatVars, restVars>>

\* disconnect(): the definition in force is the second one of the class,
\* which only logs
connector_disconnect ==
    /\ connector.stage \in {"connected", "failed"}
    /\ connector' = [connector EXCEPT !.stage = "disconnected"]
    /\ UNCHANGED fetched
    /\ UNCHANGED <<sinkVars, runVars, chatVars, restVars>>

\* a configuration and a file, before the connector is constructed; the
\* application's sink is not involved
InitConn ==
    /\ embedding_manager = "EmbeddingManager"
    /\ collection = "None"
    /\ embedding_model = "None"
    /\ initPc = "idle"
    /\ index = <<>>
    /\ nextId = 1
    /\ lastCall = NoCall
    /\ RunInit(NoRequest, "off")
    /\ ChatOff
    /\ RestOff
    /\ \E input \in TypedInputs \cup PlainInputs \cup InvalidInputs :
            connector = [csv_config |-> input.csv_config, file |-> input.file,
                         df |-> NoDf, stage |-> "none", err |-> "none"]
    /\ fetched = NoFetch

NextConn ==
    \/ construct
    \/ connect
    \/ \E limit \in {NoLimit} \cup 0..MaxFetchRows, offset \in 0..MaxFetchRows :
            fetch_data(limit, offset)
    \/ \E chunk_size \in 0..MaxFetchRows : fetch_all_chunks(chunk_size)
    \/ connector_disconnect

SpecConn == InitConn /\ [][NextConn]_vars

----------------------------------------------------------------------------
(* What the source holds, read off the file                                *)

Range(s) == {s[i] : i \in 1..Len(s)}

Started(r) == pc[r] \in {"fetch", "record", "flush", "final_flush", "finish", "done", "failed"}
InLoop(r)  == pc[r] \in {"fetch", "record", "flush", "final_flush"}
Flushing(r) == pc[r] \in {"flush", "final_flush"}

\* row i of the file has a text cell that is neither missing nor blank
RowHasText(request, i) ==
    \E j \in 1..Len(request.file.header) :
        /\ request.file.header[j] \in Range(request.csv_config.text_columns)
        /\ request.file.rows[i][j].ty = "str"
        /\ Strip(request.file.rows[i][j].s) # <<>>

RowsWithText(request, n) == {i \in 1..n : RowHasText(request, i)}

\* the texts of the first n records of run r that are not blank, in read order
SourceTexts(r, n) ==
    SelectSeq([i \in 1..n |-> get_text_content(req[r].csv_config, CleanRecord(df[r].rows[i]))],
              LAMBDA t : Strip(t) # <<>>)

\* the texts handed to the sink by run r so far, in flush order
FlushedTexts(r) == Flatten([b \in 1..Len(flushLog[r]) |-> flushLog[r][b].documents])

CeilDiv(a, b) == (a + b - 1) \div b

----------------------------------------------------------------------------
(* Claims                                                                  *)

C2_FlushPerConfiguredBatch ==
    \A r \in RunIds :
        (/\ embedding_manager = "EmbeddingManager"
         /\ pc[r] \in {"done", "failed"}
         /\ df[r].loaded
         /\ RowsWithText(req[r], Len(req[r].file.rows)) = 1..Len(req[r].file.rows))
        => LET N == Len(req[r].file.rows)
               B == req[r].csv_config.chunk_size
           IN  /\ Len(flushLog[r]) = CeilDiv(N, B)
               /\ \A b \in 1..Len(flushLog[r]) :
                    Len(flushLog[r][b].documents) =
                        IF b < CeilDiv(N, B) THEN B ELSE N - B * (b - 1)
               /\ \A i \in 1..N : \E j \in 1..Len(index) :
                    index[j].document = SourceTexts(r, N)[i]

\* C3: in a run, the batches handed to the sink, concatenated in flush order
\* and followed by what is still accumulated, are exactly the non-blank
\* records read so far, in read order; when the run completes every one of
\* them has been handed over, the last partial batch included.
C3_BatchesInSourceOrder ==
    \A r \in RunIds :
        /\ InLoop(r) => FlushedTexts(r) \o documents[r] = SourceTexts(r, pos[r])
        /\ pc[r] \in {"finish", "done"} =>
                /\ pos[r] = Len(df[r].rows)
                /\ FlushedTexts(r) = SourceTexts(r, Len(df[r].rows))

\* C3 witness: a completed run that flushed a full batch and then a partial one
C3_Witness ==
    \E r \in RunIds :
        /\ pc[r] = "done"
        /\ Len(flushLog[r]) = 2
        /\ Len(flushLog[r][1].documents) = FlushThreshold
        /\ Len(flushLog[r][2].documents) < FlushThreshold
        /\ Len(SourceTexts(r, Len(df[r].rows))) < Len(df[r].rows)

\* C4: a record whose text cells are all missing, empty or blank is neither
\* accumulated, handed to the sink nor counted: the processed count is the
\* number of records with text among those read, and at the end of a run
\* the count and the number of documents handed over are both the number of
\* records of the source that have text.
C4_EmptyTextSkipped ==
    \A r \in RunIds :
        /\ \A i \in 1..Len(documents[r]) : Strip(documents[r][i]) # <<>>
        /\ \A i \in 1..Len(FlushedTexts(r)) : Strip(FlushedTexts(r)[i]) # <<>>
        /\ count[r] = Cardinality(RowsWithText(req[r], pos[r]))
        /\ pc[r] = "done" =>
                /\ count[r] = Cardinality(RowsWithText(req[r], Len(req[r].file.rows)))
                /\ Len(FlushedTexts(r)) = count[r]

\* C4 witness: a completed run over a source that mixes records with and
\* without text
C4_Witness ==
    \E r \in RunIds :
        /\ pc[r] = "done"
        /\ count[r] > 0
        /\ count[r] < Len(req[r].file.rows)
        /\ Len(FlushedTexts(r)) = count[r]

\* C5 (as stated): every connector opened for an ingestion request, by the
\* endpoint or by the background task, has been disconnected once the
\* request is over, however it ended.
C5_ConnectorsDisconnected ==
    \A r \in RunIds :
        pc[r] \in {"done", "failed", "rejected"} =>
            conn[r] # "connected" /\ apiConn[r] # "connected"

SinkErrors == {"ValueError", "TypeError", "EmbeddingOrIndexFailure"}

\* C6: when add_documents raises during a flush the run ends there with that
\* error and the index is left exactly as it was (what was indexed before
\* stays, nothing of the failed batch is added); a failed run stays failed
\* and hands nothing more to the sink.
C6_SinkFailureAborts ==
    [][\A r \in RunIds :
        /\ (Flushing(r) /\ err'[r] # "none") =>
                /\ pc'[r] = "failed"
                /\ err'[r] \in SinkErrors
                /\ index' = index
        /\ pc[r] = "failed" =>
                /\ pc'[r] = "failed"
                /\ err'[r] = err[r]
                /\ flushLog'[r] = flushLog[r]]_vars

\* C6 witness: a run ended by the exception of its flush, over an index that
\* already held documents
C6_Witness ==
    \E r \in RunIds :
        /\ pc[r] = "failed"
        /\ err[r] \in SinkErrors
        /\ Len(flushLog[r]) = 1
        /\ index # <<>>

\* a column declared required without a default is not among the file's columns
RequiredColumnAbsent(request) ==
    \E i \in 1..Len(request.csv_config.columns) :
        /\ request.csv_config.columns[i].required
        /\ request.csv_config.columns[i].default_value.ty = "none"
        /\ request.csv_config.columns[i].name \notin Range(request.file.header)

\* row i of the file has no value for a column declared required without a default
LacksRequired(request, i) ==
    \/ RequiredColumnAbsent(request)
    \/ \E c \in 1..Len(request.csv_config.columns), j \in 1..Len(request.file.header) :
        /\ request.csv_config.columns[c].required
        /\ request.csv_config.columns[c].default_value.ty = "none"
        /\ request.file.header[j] = request.csv_config.columns[c].name
        /\ request.file.rows[i][j].ty = "nan"

C8_NotInitializedRejected ==
    /\ initPc = "done" <=> (collection = "Collection" /\ embedding_model = "Model")
    /\ lastCall.op # "none" =>
        /\ lastCall.phase # "done" => lastCall.outcome = "ValueError" /\ index = lastCall.before
        /\ lastCall.phase = "done" => lastCall.outcome # "ValueError"

\* C8 witness: add_documents called while the embedding model is still loading
C8_Witness ==
    /\ lastCall.op = "add_documents"
    /\ lastCall.phase = "loading"
    /\ lastCall.documents # <<>>
    /\ lastCall.outcome = "ValueError"

\* C9 (as stated): every batch the pipeline hands to add_documents is added:
\* each text of the batch that is not blank is in the index afterwards, with
\* the metadata handed over at the same position.
C9_PipelineBatchesIndexed ==
    embedding_manager = "EmbeddingManager" =>
        \A r \in RunIds : \A b \in 1..Len(flushLog[r]) :
            \A i \in 1..Len(flushLog[r][b].documents) :
                Strip(flushLog[r][b].documents[i]) # <<>> =>
                    \E j \in 1..Len(index) :
                        /\ index[j].document = flushLog[r][b].documents[i]
                        /\ index[j].metadata = CleanMetadata(flushLog[r][b].metadatas[i])

\* C10 (as stated): on an initialized sink holding S documents, and with the
\* embedding model and the store working, search_similar(q, k) returns
\* exactly min(k, S) results and raises nothing, for every k >= 1 and S >= 0.
C10_ReturnsMinOfKAndSize ==
    (lastCall.op = "search_similar" /\ lastCall.phase = "done" /\ ~lastCall.fault) =>
        /\ lastCall.outcome = "ok"
        /\ Len(lastCall.results) = Min(lastCall.k, Len(lastCall.before))

\* C11: a failure of the embedding model or of the vector index during the
\* search of a chat request reaches the caller as that error, never as a
\* response without sources; a successful response has no sources only when
\* the search ran without failure over an index that holds nothing.
C11_SearchFailurePropagated ==
    lastChat.op = "process_chat_request" =>
        /\ lastChat.fault => lastChat.outcome = "EmbeddingOrIndexFailure"
        /\ (lastChat.outcome = "ok" /\ lastChat.sources = <<>>) =>
                ~lastChat.fault /\ index = <<>>
        /\ (lastChat.outcome = "ok" /\ index # <<>>) => lastChat.sources # <<>>

\* C11 witness: a chat request whose search failed over an index that holds documents
C11_Witness ==
    /\ lastChat.op = "process_chat_request"
    /\ lastChat.fault
    /\ lastChat.outcome = "EmbeddingOrIndexFailure"
    /\ index # <<>>

\* no None, list or mapping among the values of a metadata mapping
StoreSafe(metadata) ==
    \A i \in 1..Len(metadata) : metadata[i][2].ty \notin {"none", "list", "dict"}

\* metadata is what the store is to hold for the document: the keys of None
\* values left out, every other key kept with its value, a list as the
\* comma-joined string of its items and a mapping as its JSON string
StoredFor(metadata, document) ==
    /\ \A i \in 1..Len(metadata) : HasKey(document.d, metadata[i][1])
    /\ \A i \in 1..Len(document.d) :
        LET key == document.d[i][1]
            value == document.d[i][2]
        IN  CASE value.ty = "none" -> ~HasKey(metadata, key)
              [] value.ty = "list" ->
                    HasKey(metadata, key) /\ GetKey(metadata, key) = PyStr(CommaJoin(value))
              [] value.ty = "dict" ->
                    HasKey(metadata, key) /\ GetKey(metadata, key) = PyStr(JsonDumps(value))
              [] OTHER -> HasKey(metadata, key) /\ GetKey(metadata, key) = value

\* C12: every metadata mapping in the index is store-safe: it holds no None
\* value and no list or mapping value; the entries a call of add_documents
\* adds hold, for one of the documents of the call, the keys of its non-None
\* fields, lists as comma-joined strings and mappings as JSON strings.
C12_MetadataStoreSafe ==
    /\ \A j \in 1..Len(index) : StoreSafe(index[j].metadata)
    /\ (lastCall.op = "add_documents" /\ lastCall.outcome = "ok") =>
        \A j \in (Len(lastCall.before) + 1)..Len(index) :
            \E i \in 1..Len(lastCall.documents) :
                StoredFor(index[j].metadata, lastCall.documents[i])

\* C12 witness: an entry added for a document with a None field, a list
\* field and a mapping field
C12_Witness ==
    /\ lastCall.op = "add_documents"
    /\ lastCall.outcome = "ok"
    /\ \E j \in (Len(lastCall.before) + 1)..Len(index) :
        /\ HasKey(index[j].metadata, <<"tags">>)
        /\ HasKey(index[j].metadata, <<"extra">>)
        /\ ~HasKey(index[j].metadata, <<"category">>)

\* an index entry without its id
EntryContent(entry) == [document |-> entry.document, metadata |-> entry.metadata]

\* C13: no two index entries share an id, and add_documents only appends:
\* the entries the index held stay as they were and the index grows by one
\* entry per document added, whether or not an equal document is already
\* there (adding the same documents twice doubles the entries).
C13_IdsUniqueNoDedup ==
    /\ \A i, j \in 1..Len(index) : i # j => index[i].id # index[j].id
    /\ lastCall.op = "add_documents" =>
        /\ Len(index) = Len(lastCall.before) + lastCall.count
        /\ SubSeq(index, 1, Len(lastCall.before)) = lastCall.before
        /\ lastCall.outcome = "ok" =>
            lastCall.count = Cardinality({i \in 1..Len(lastCall.documents) :
                Strip(CombineTextFields(lastCall.documents[i], lastCall.text_fields).text) # <<>>})

\* C13 witness: the documents the index already held were added once more
C13_Witness ==
    /\ lastCall.op = "add_documents"
    /\ lastCall.outcome = "ok"
    /\ lastCall.before # <<>>
    /\ Len(index) = 2 * Len(lastCall.before)
    /\ \A i \in 1..Len(lastCall.before) :
            EntryContent(index[Len(lastCall.before) + i]) = EntryContent(index[i])

\* C14 (as stated): two ingestion runs in flight against the application's
\* sink do not hinder each other: neither run fails, and once both are over
\* the index holds the text of every record of both sources that has text.
C14_ConcurrentRunsComplete ==
    embedding_manager = "EmbeddingManager" =>
        /\ \A r \in RunIds : pc[r] # "failed"
        /\ (\A r \in RunIds : pc[r] = "done") =>
            \A r \in RunIds : \A i \in 1..Len(SourceTexts(r, Len(df[r].rows))) :
                \E j \in 1..Len(index) :
                    index[j].document = SourceTexts(r, Len(df[r].rows))[i]

\* the default the normalization substitutes for a malformed value of a type
TypeDefault(type) ==
    CASE type = "integer"  -> PyInt(<<"0">>)
      [] type = "float"    -> PyFloat(<<"0.0">>)
      [] type = "boolean"  -> PyBool(FALSE)
      [] type = "json"     -> PyDict(<<>>)
      [] type = "datetime" -> PyNaT

\* the cell does not spell a value of the type
Malformed(type, cell) ==
    CASE type = "integer"  -> cell \in {PyStr(<<"abc">>), PyStr(<<"inf">>)}
      [] type = "float"    -> cell = PyStr(<<"abc">>)
      [] type = "boolean"  -> cell = PyStr(<<"maybe">>)
      [] type = "json"     -> cell \in {PyNaN, PyStr(<<"{bad">>)}
      [] type = "datetime" -> cell = PyStr(<<"notadate">>)

\* the connector is over a file with a typed column
TypedConnector ==
    /\ Len(connector.csv_config.columns) = 2
    /\ connector.csv_config.columns[2].name = Value

\* C15 (as stated): loading a file with a typed column never raises, and
\* every malformed cell of the column has become the default of the declared
\* type: 0, 0.0, false, an empty structure, a null timestamp.
C15_MalformedBecomesDefault ==
    (TypedConnector /\ connector.stage \in {"connected", "failed", "disconnected"}) =>
        /\ connector.err = "none"
        /\ \A i \in 1..Len(connector.file.rows) :
            Malformed(connector.csv_config.columns[2].type, connector.file.rows[i][2]) =>
                connector.df.rows[i][2][2] = TypeDefault(connector.csv_config.columns[2].type)

\* the records fetch_data and fetch_in_chunks give for all the rows, in file order
AllRecords == [i \in 1..Len(connector.df.rows) |-> CleanRecord(connector.df.rows[i])]

\* C17: fetch_in_chunks(chunk_size=c), c >= 1, on a loaded source of N rows
\* yields ceil(N/c) chunks, none empty, each of c rows except a possibly
\* shorter last one, and the chunks concatenated in yield order are the N
\* rows in file order.
C17_ChunksPartitionRows ==
    (fetched.op = "fetch_in_chunks" /\ fetched.outcome = "ok" /\ fetched.chunk_size >= 1) =>
        LET N == Len(connector.df.rows)
            c == fetched.chunk_size
        IN  /\ Len(fetched.chunks) = CeilDiv(N, c)
            /\ \A b \in 1..Len(fetched.chunks) :
                /\ fetched.chunks[b] # <<>>
                /\ Len(fetched.chunks[b]) <= c
                /\ b < Len(fetched.chunks) => Len(fetched.chunks[b]) = c
            /\ Flatten(fetched.chunks) = AllRecords

\* C17 witness: three rows fetched in chunks of two
C17_Witness ==
    /\ fetched.op = "fetch_in_chunks"
    /\ fetched.outcome = "ok"
    /\ fetched.chunk_size = 2
    /\ Len(connector.df.rows) = 3
    /\ Len(fetched.chunks) = 2

\* C18 (as stated): fetch_data(limit=L, offset=O), L >= 0, on a loaded source
\* of N rows returns the rows at positions O .. O+L-1 that exist, in file
\* order: min(L, max(0, N-O)) rows; without a limit, all rows from O on.
C18_LimitOffsetWindow ==
    (fetched.op = "fetch_data" /\ fetched.outcome = "ok") =>
        LET N == Len(connector.df.rows)
            O == fetched.offset
            expected == IF fetched.limit = NoLimit THEN N - Min(O, N)
                     ELSE Min(fetched.limit, N - Min(O, N))
        IN  /\ Len(fetched.rows) = expected
            /\ \A i \in 1..Len(fetched.rows) : fetched.rows[i] = AllRecords[O + i]

\* the text get_text_content gives for the fields text_fields of a document:
\* the trimmed non-empty values in declared order, joined by one space
PlainText(document, text_fields) ==
    Join(<<" ">>, TextParts([i \in 1..Len(text_fields) |-> text_fields[i].s], document.d))

\* C16 (as stated): the text stored for a record is the plain join of its
\* configured text fields: every entry a call of add_documents adds holds,
\* for one of the documents of the call, its trimmed non-empty text fields
\* in declared order joined by one space, without field labels.
C16_StoredTextIsPlainJoin ==
    (lastCall.op = "add_documents" /\ lastCall.outcome = "ok") =>
        \A j \in (Len(lastCall.before) + 1)..Len(index) :
            \E i \in 1..Len(lastCall.documents) :
                index[j].document = PlainText(lastCall.documents[i], lastCall.text_fields)

\* C19 (as stated): a CSV request whose file does not exist, or whose text or
\* metadata columns name an undeclared column, fails at once: it is never
\* scheduled as a background task (it stays waiting or is rejected by the
\* endpoint), nothing is handed to the sink and the index stays empty.
C19_InvalidSourceNeverScheduled ==
    \A r \in RunIds :
        (/\ pc[r] # "off"
         /\ req[r].db_type = "csv"
         /\ ValidateConfig(req[r].csv_config, req[r].file) # "ok") =>
            /\ pc[r] \in {"idle", "rejected"}
            /\ flushLog[r] = <<>>
            /\ index = <<>>

\* C20 (as stated): get_history(user, limit) returns at most limit messages:
\* the min(limit, stored) most recently added messages of the user, in the
\* order they were added, for every limit >= 0, and the empty list for a
\* user with no stored history.
C20_HistoryAtMostLimit ==
    lastChat.op = "get_history" =>
        /\ Len(lastChat.messages) = Min(lastChat.limit, Len(lastChat.before))
        /\ lastChat.messages = LastN(lastChat.before, lastChat.limit)

\* C30 (as stated): the connector serves fetch_data and fetch_in_chunks only
\* between connect() and disconnect(): a call made before connect() or after
\* disconnect() finds no loaded table and fails with 'CSV not loaded'.
C30_ServesOnlyWhileConnected ==
    [][(connector.stage \in {"new", "disconnected"} /\ fetched' # fetched) =>
            /\ ~connector.df.loaded
            /\ fetched'.outcome = "ValueError"]_vars

C29_HistoriesIsolated ==
    [][\A a \in Users :
        (/\ lastChat'.user = a
         /\ \/ lastChat'.op = "add_message" /\ clock' = clock + 1
            \/ lastChat'.op = "clear_history" /\ history' # history) =>
            \A b \in Users \ {a} : \A limit \in 0..MaxLimit :
                GetHistory(history', b, limit) = GetHistory(history, b, limit)]_vars

C21_ChatUsesCurrentClient ==
    [][/\ (lastChat'.op = "process_chat_request" /\ lastChat'.client # NoClient
            /\ UNCHANGED llmVars) => lastChat'.client = gemini_client
       /\ (lastLlm'.op = "switch" /\ lastLlm'.outcome # "success") =>
            UNCHANGED <<gemini_client, rag_service>>]_vars

\* the content chunks among the chunks yielded, in the order yielded
ContentOf(chunks) ==
    LET content == SelectSeq(chunks, LAMBDA c : c.type = "content")
    IN  [i \in 1..Len(content) |-> content[i].content[1]]

\* C26: the chunks of a streamed answer follow the protocol: a sources chunk
\* precedes every content chunk; the content chunks are the texts the LLM
\* generated, in its order; a done or error chunk is the last chunk, a stream
\* that is over ends with one (done when every text was delivered, error
\* otherwise) and one that is not over has none; the user and the assistant
\* message are in the history only once the stream is over with done, the
\* assistant message holding the texts delivered.
C26_StreamProtocolOrder ==
    stream.pc # "none" =>
        LET c    == stream.chunks
            h    == history[SafeName(stream.user)]
            n    == Len(h)
            last == c[Len(c)].type
        IN  /\ c # <<>>
            /\ \A i \in 1..Len(c) :
                    c[i].type = "content" => \E j \in 1..(i - 1) : c[j].type = "sources"
            /\ ContentOf(c) = SelectSeq(SubSeq(stream.generated, 1, stream.taken),
                                        LAMBDA t : t # "")
            /\ \A i \in 1..Len(c) : c[i].type \in {"done", "error"} => i = Len(c)
            /\ stream.pc = "closed" <=> last \in {"done", "error"}
            /\ last = "done" => stream.taken = Len(stream.generated)
            /\ IF last = "done"
               THEN /\ n = Min(Len(stream.before) + 2, HistoryCap)
                    /\ h[n - 1].role = "user"
                    /\ h[n].role = "assistant"
                    /\ h[n].content = ContentOf(c)
                    /\ SubSeq(h, 1, n - 2) = LastN(stream.before, n - 2)
               ELSE h = stream.before

\* C26 witness: a stream delivered two content chunks and ended with done
C26_Witness ==
    /\ stream.pc = "closed"
    /\ stream.chunks[Len(stream.chunks)].type = "done"
    /\ Len(ContentOf(stream.chunks)) >= 2
    /\ Len(stream.generated) > Len(ContentOf(stream.chunks))
----------------------------------------------------------------------------
(* The ingestion workers (app/messaging/consumers.py)                      *)

\* `if total_docs % 100 == 0`: a progress update every 100 records
ProgressEvery == 100

\* `if len(batch_buffer[batch_id]) >= 50`
EmbeddingBatchSize == 50

MaxWorkerRows == 2

Body == <<"body">>
Id   == <<"id">>

\* the records a source yields: with a text, with an empty text, without id
RecordKinds == {"text", "empty", "noid"}

WorkerRecord(kind, i) ==
    CASE kind = "text"  -> PyDict(<< <<Id, PyStr(<<ToString(i)>>)>>, <<Body, PyStr(<<"t">>)>> >>)
      [] kind = "empty" -> PyDict(<< <<Id, PyStr(<<ToString(i)>>)>>, <<Body, PyStr(<<>>)>> >>)
      [] OTHER          -> PyDict(<< <<Body, PyStr(<<"t">>)>> >>)

\* the sources an ingestion message may name: a few records of any kind, or
\* about ProgressEvery records
WorkerSources ==
    {[i \in 1..Len(kinds) |-> WorkerRecord(kinds[i], i)] :
        kinds \in SeqsUpTo(RecordKinds, MaxWorkerRows)}
    \cup {[i \in 1..n |-> WorkerRecord(IF i = 1 THEN "empty" ELSE "text", i)] :
            n \in (ProgressEvery - 1)..(ProgressEvery + MaxWorkerRows - 1)}

\* the sources of a request that follows another one
NextSources == {<<>>, <<WorkerRecord("text", 1)>>}

\* DataIngestionMessage; rows: what get_data yields for its connection
\* parameters, table and columns
IngestionMessage(batch_id, rows) ==
    [batch_id |-> batch_id, rows |-> rows, text_fields |-> <<Body>>]

\* BatchStatusMessage; the counts default to 0: has_counts tells whether they
\* were given
StatusUpdate(batch_id, status, has_counts, total_docs, processed_docs) ==
    [batch_id |-> batch_id, status |-> status, has_counts |-> has_counts,
     total_documents |-> total_docs, processed_documents |-> processed_docs]

\* Python's truth value of a record's field
Truthy(v) ==
    CASE v.ty = "str"  -> v.s # <<>>
      [] v.ty = "none" -> FALSE
      [] v.ty \in {"int", "float"} -> v.s \notin {<<"0">>, <<"0.0">>}
      [] v.ty = "bool" -> v.s = <<"True">>
      [] v.ty \in {"dict", "list"} -> v.d # <<>>
      [] OTHER -> TRUE

\* the loop over message.text_fields: `if field in record and record[field]`
RECURSIVE WorkerTextParts(_, _)
WorkerTextParts(record, text_fields) ==
    IF text_fields = <<>> THEN <<>>
    ELSE LET field == Head(text_fields)
             rest  == WorkerTextParts(record, Tail(text_fields))
         IN  IF HasKey(record.d, field) /\ Truthy(GetKey(record.d, field))
             THEN <<field \o <<":", " ">> \o Str(GetKey(record.d, field))>> \o rest
             ELSE rest

\* combined_text = " | ".join(text_parts)
WorkerCombinedText(record, text_fields) ==
    Join(<<" ", "|", " ">>, WorkerTextParts(record, text_fields))

\* str(record.get('id', uuid.uuid4())); fresh: the uuid drawn
DocumentId(record, fresh) ==
    IF HasKey(record.d, Id) THEN Str(GetKey(record.d, Id)) ELSE fresh

\* EmbeddingMessage
EmbeddingMessage(document_id, content, metadata, batch_id) ==
    [document_id |-> document_id, content |-> content, metadata |-> metadata,
     batch_id |-> batch_id]

\* faulty variant: the newest update is put in front
SendFirst(log, message) == <<message>> \o log

\* producer.send(topic, value): the message is appended to the topic
Send(log, message) == Append(log, message)

\* the loop of _consume_messages takes the next message of data-ingestion and
\* _process_ingestion starts: the 'processing' update, then the connector;
\* reachable: create_connector succeeds
ingestion_poll(w, reachable) ==
    /\ ingestion[w].pc = "polling"
    /\ ingestion[w].offset < Len(topic.ingestion)
    /\ LET message == topic.ingestion[ingestion[w].offset + 1]
           started == StatusUpdate(message.batch_id, "processing", FALSE, 0, 0)
           failed  == StatusUpdate(message.batch_id, "failed", FALSE, 0, 0)
           updates == IF reachable THEN Send(<<>>, started)
                      ELSE Send(Send(<<>>, started), failed)
           sent    == IF reachable THEN Send(topic.status, started)
                      ELSE Send(Send(topic.status, started), failed)
       IN  /\ ingestion' = [ingestion EXCEPT ![w] =
                    [pc |-> IF reachable THEN "reading" ELSE "polling",
                     offset |-> @.offset + 1, message |-> message, position |-> 0,
                     total_docs |-> 0, processed_docs |-> 0, emitted |-> updates]]
           /\ topic' = [topic EXCEPT !.status = sent]
    /\ UNCHANGED <<embedder, redis, statusOffset, api>>
    /\ UNCHANGED <<sinkVars, runVars, connVars, chatVars, llmVars, streamVars>>

\* one turn of `async for record in db_connector.get_data(...)`; fault: the
\* source raises instead of yielding the record
ingestion_record(w, fault) ==
    /\ ingestion[w].pc = "reading"
    /\ ingestion[w].position < Len(ingestion[w].message.rows)
    /\ LET me        == ingestion[w]
           batch_id  == me.message.batch_id
           record    == me.message.rows[me.position + 1]
           total     == me.total_docs + 1
           text      == WorkerCombinedText(record, me.message.text_fields)
           send_it   == Strip(text) # <<>>
           processed == IF send_it THEN me.processed_docs + 1 ELSE me.processed_docs
           fresh     == <<"uuid", ToString(Len(topic.embedding) + 1)>>
           request   == EmbeddingMessage(DocumentId(record, fresh), text, record, batch_id)
           progress  == StatusUpdate(batch_id, "processing", TRUE, total, processed)
           failed    == StatusUpdate(batch_id, "failed", FALSE, 0, 0)
       IN  IF fault
           THEN /\ ingestion' = [ingestion EXCEPT ![w].pc = "polling",
                                                  ![w].emitted = Send(@, failed)]
                /\ topic' = [topic EXCEPT !.status = Send(@, failed)]
           ELSE /\ ingestion' = [ingestion EXCEPT
                        ![w].position = @ + 1,
                        ![w].total_docs = total,
                        ![w].processed_docs = processed,
                        ![w].emitted = IF total % ProgressEvery = 0
                                       THEN Send(@, progress) ELSE @]
                /\ topic' = [topic EXCEPT
                        !.embedding = IF send_it THEN Send(@, request) ELSE @,
                        !.status = IF total % ProgressEvery = 0
                                   THEN Send(@, progress) ELSE @]
    /\ UNCHANGED <<embedder, redis, statusOffset, api>>
    /\ UNCHANGED <<sinkVars, runVars, connVars, chatVars, llmVars, streamVars>>

\* the source is exhausted: disconnect, then the 'completed' update
ingestion_complete(w) ==
    /\ ingestion[w].pc = "reading"
    /\ ingestion[w].position = Len(ingestion[w].message.rows)
    /\ LET me        == ingestion[w]
           completed == StatusUpdate(me.message.batch_id, "completed", TRUE,
                                     me.total_docs, me.processed_docs)
       IN  /\ ingestion' = [ingestion EXCEPT ![w].pc = "polling",
                                             ![w].emitted = Send(@, completed)]
           /\ topic' = [topic EXCEPT !.status = Send(@, completed)]
    /\ UNCHANGED <<embedder, redis, statusOffset, api>>
    /\ UNCHANGED <<sinkVars, runVars, connVars, chatVars, llmVars, streamVars>>

\* the embedding managers of the workers are initialised, the index is empty
WorkerSink ==
    /\ embedding_manager = "EmbeddingManager"
    /\ collection = "Collection"
    /\ embedding_model = "Model"
    /\ initPc = "done"
    /\ index = <<>>
    /\ nextId = 1
    /\ lastCall = NoCall

\* everything but the workers
WorkerRest ==
    /\ RunInit(NoRequest, "off")
    /\ ConnOff
    /\ ChatOff
    /\ Startup("gemini")
    /\ stream = NoStream

\* a DataIngestionWorker after start()
StartedIngestion == [IdleIngestion EXCEPT !.pc = "polling"]

\* one ingestion worker and the messages of data-ingestion: one or two
\* requests, the first for any source
InitIngest ==
    /\ WorkerSink
    /\ WorkerRest
    /\ \E rows \in WorkerSources, more \in SeqsUpTo(NextSources, 1) :
            topic = [NoTopics EXCEPT !.ingestion =
                        <<IngestionMessage("b1", rows)>>
                        \o [i \in 1..Len(more) |-> IngestionMessage("b2", more[i])]]
    /\ ingestion = [w \in IngestionWorkers |->
                        IF w = 1 THEN StartedIngestion ELSE IdleIngestion]
    /\ embedder = [e \in EmbeddingWorkers |-> IdleEmbedder]
    /\ redis = [b \in BatchIds |-> "none"]
    /\ statusOffset = 0
    /\ api = NoApiCall

NextIngest ==
    \/ \E reachable \in BOOLEAN : ingestion_poll(1, reachable)
    \/ \E fault \in BOOLEAN : ingestion_record(1, fault)
    \/ ingestion_complete(1)

SpecIngest == InitIngest /\ [][NextIngest]_vars

\* the status updates sent for a batch id, in the order of the topic
UpdatesFor(batch_id) ==
    SelectSeq(topic.status, LAMBDA update : update.batch_id = batch_id)

Terminal(update) == update.status \in {"completed", "failed"}

\* the batch ids whose handling by ingestion worker w is over
Handled(w) ==
    {topic.ingestion[i].batch_id :
        i \in 1..(IF ingestion[w].pc = "reading"
                  THEN ingestion[w].offset - 1 ELSE ingestion[w].offset)}

----------------------------------------------------------------------------
(* The embedding workers (app/messaging/consumers.py)                      *)

MaxRequests == 2

\* {"id": ..., "content": ..., **metadata}: a key of the metadata that is
\* already there keeps its place and takes the metadata's value
RECURSIVE DictUpdate(_, _)
DictUpdate(d, items) ==
    IF items = <<>> THEN d
    ELSE DictUpdate(SetKey(d, Head(items)[1], Head(items)[2]), Tail(items))

\* docs_for_embedding of _process_embedding_batch
DocsForEmbedding(requests) ==
    [i \in 1..Len(requests) |->
        PyDict(DictUpdate(<< <<Id, PyStr(requests[i].document_id)>>,
                             <<Content, PyStr(requests[i].content)>> >>,
                          requests[i].metadata.d))]

\* VectorUpdateMessage, one per request of a batch
VectorUpdates(requests) ==
    [i \in 1..Len(requests) |->
        [operation |-> "insert", document_id |-> requests[i].document_id,
         batch_id |-> requests[i].batch_id]]

\* `del batch_buffer[batch_id]`
DelKey(d, k) == SelectSeq(d, LAMBDA item : item[1] # k)

\* batch_buffer[batch_id].append(embedding_msg), the list being created first
\* when the batch id is new
BufferAppend(buffer, request) ==
    IF HasKey(buffer, request.batch_id)
    THEN SetKey(buffer, request.batch_id, Append(GetKey(buffer, request.batch_id), request))
    ELSE SetKey(buffer, request.batch_id, <<request>>)

\* the number of requests a worker holds in its batch_buffer
Buffered(e) ==
    LET RECURSIVE Total(_)
        Total(buffer) == IF buffer = <<>> THEN 0
                         ELSE Len(Head(buffer)[2]) + Total(Tail(buffer))
    IN  Total(embedder[e].batch_buffer)

\* `async for message in self.consumer` has a message to deliver
CanConsume(e) ==
    /\ embedder[e].running
    /\ embedder[e].offset < Len(topic.embedding)

\* the worker after one turn of the loop of _consume_messages: the request is
\* buffered under its batch id, and a buffer of 50 is handed on and deleted
Consumed(e) ==
    LET request  == topic.embedding[embedder[e].offset + 1]
        buffer   == BufferAppend(embedder[e].batch_buffer, request)
        requests == GetKey(buffer, request.batch_id)
    IN  IF Len(requests) >= EmbeddingBatchSize
        THEN [embedder EXCEPT ![e].offset = @ + 1,
                              ![e].batch_buffer = DelKey(buffer, request.batch_id),
                              ![e].passed = @ + Len(requests)]
        ELSE [embedder EXCEPT ![e].offset = @ + 1, ![e].batch_buffer = buffer]

\* the consumer delivers a message and the loop takes its turn
embedding_fetch(e) == CanConsume(e) /\ embedder' = Consumed(e)

\* one turn of the loop of _consume_messages; a buffer of 50 goes through
\* _process_embedding_batch; fault: the embedding model or the vector store
\* raises
embedding_consume(e, fault) ==
    /\ CanConsume(e)
    /\ embedder' = Consumed(e)
    /\ LET request  == topic.embedding[embedder[e].offset + 1]
           requests == GetKey(BufferAppend(embedder[e].batch_buffer, request),
                              request.batch_id)
           res      == AddDocuments(collection, embedding_model,
                                    DocsForEmbedding(requests), <<PyStr(Content)>>, fault)
       IN  IF Len(requests) >= EmbeddingBatchSize
           THEN /\ index' = index \o NewEntries(res.texts, res.metadatas, nextId)
                /\ nextId' = nextId + Len(res.texts)
                /\ topic' = [topic EXCEPT !.vector =
                                IF res.outcome = "ok" THEN @ \o VectorUpdates(requests) ELSE @]
           ELSE UNCHANGED <<index, nextId, topic>>
    /\ UNCHANGED <<embedding_manager, collection, embedding_model, initPc, lastCall>>
    /\ UNCHANGED <<ingestion, redis, statusOffset, api>>
    /\ UNCHANGED <<runVars, connVars, chatVars, llmVars, streamVars>>

\* the entries the calls of add_documents for the remaining buffers store, in
\* the order of the buffers; faulty: the batch ids whose call raises
RECURSIVE RemainingEntries(_, _, _)
RemainingEntries(buffer, faulty, next_id) ==
    IF buffer = <<>> THEN <<>>
    ELSE LET res   == AddDocuments(collection, embedding_model,
                                   DocsForEmbedding(Head(buffer)[2]), <<PyStr(Content)>>,
                                   Head(buffer)[1] \in faulty)
             added == NewEntries(res.texts, res.metadatas, next_id)
         IN  added \o RemainingEntries(Tail(buffer), faulty, next_id + Len(added))

\* stop(): running becomes False, the consumer and the producer are stopped,
\* the loop of _consume_messages ends and the remaining buffers are handed to
\* _process_embedding_batch; the stopped producer sends no vector update
embedding_stop(e, faulty) ==
    /\ embedder[e].running
    /\ LET added == RemainingEntries(embedder[e].batch_buffer, faulty, nextId)
       IN  /\ embedder' = [embedder EXCEPT ![e].running = FALSE,
                                           ![e].batch_buffer = <<>>,
                                           ![e].passed = @ + Buffered(e)]
           /\ index' = index \o added
           /\ nextId' = nextId + Len(added)
    /\ UNCHANGED <<embedding_manager, collection, embedding_model, initPc, lastCall>>
    /\ UNCHANGED <<topic, ingestion, redis, statusOffset, api>>
    /\ UNCHANGED <<runVars, connVars, chatVars, llmVars, streamVars>>

\* an EmbeddingWorker after start()
StartedEmbedder == [IdleEmbedder EXCEPT !.running = TRUE]

\* the embedding request an ingestion worker sends for record i of a batch
RequestFor(batch_id, i) ==
    LET record == WorkerRecord("text", i)
    IN  EmbeddingMessage(DocumentId(record, <<>>), WorkerCombinedText(record, <<Body>>),
                         record, batch_id)

\* the requests on embedding-requests: a few, or about EmbeddingBatchSize, of
\* batch b1, and possibly one of batch b2 among them
EmbeddingTopics ==
    LET sizes == 0..MaxRequests
                 \cup (EmbeddingBatchSize - 1)..(EmbeddingBatchSize + MaxRequests - 1)
    IN  {[i \in 1..n |-> RequestFor("b1", i)] : n \in sizes}
        \cup {[i \in 1..(n + 1) |->
                    IF i = 2 THEN RequestFor("b2", 1)
                    ELSE RequestFor("b1", IF i > 2 THEN i - 1 ELSE i)] :
              n \in {k \in sizes : k >= 1}}

\* one embedding worker and the requests of embedding-requests
InitEmbed ==
    /\ WorkerSink
    /\ WorkerRest
    /\ \E requests \in EmbeddingTopics : topic = [NoTopics EXCEPT !.embedding = requests]
    /\ ingestion = [w \in IngestionWorkers |-> IdleIngestion]
    /\ embedder = [e \in EmbeddingWorkers |->
                        IF e = 1 THEN StartedEmbedder ELSE IdleEmbedder]
    /\ redis = [b \in BatchIds |-> "none"]
    /\ statusOffset = 0
    /\ api = NoApiCall

NextEmbed ==
    \/ \E fault \in BOOLEAN : embedding_consume(1, fault)
    \/ \E faulty \in SUBSET BatchIds : embedding_stop(1, faulty)

SpecEmbed == InitEmbed /\ [][NextEmbed]_vars

\* a turn of the loop that only buffers the request: the buffer of its batch
\* stays below 50
embedding_buffer(e) ==
    /\ CanConsume(e)
    /\ Consumed(e)[e].passed = embedder[e].passed
    /\ embedder' = Consumed(e)
    /\ UNCHANGED <<topic, ingestion, redis, statusOffset, api>>
    /\ UNCHANGED <<sinkVars, runVars, connVars, chatVars, llmVars, streamVars>>

\* the consumer keeps delivering while requests are on the topic, and the
\* loop takes its turn for each: weak fairness of the turns that buffer, and
\* of every turn (ENABLED <<embedding_fetch(1)>>_vars is CanConsume(1)).
\* Nothing obliges anyone to stop the worker.
SpecEmbedFair ==
    /\ SpecEmbed
    /\ WF_vars(embedding_buffer(1))
    /\ ([]<>(~CanConsume(1)) \/ []<><<embedding_fetch(1)>>_vars)

\* C25: a request a running embedding worker has consumed is handed to
\* add_documents unless the worker is stopped first, the last fewer-than-50
\* requests of a batch included: no request stays in the buffer of a worker
\* that keeps running
C25_BufferedEventuallyAdded ==
    (embedder[1].running /\ Buffered(1) > 0)
        ~> (~embedder[1].running \/ Buffered(1) = 0)

----------------------------------------------------------------------------
(* The status consumer, /ingest-data-async and the pool of run_workers.py  *)

MaxPoolRows == 1

\* what update_batch_status stores under batch_status:{batch_id}
StoredStatus(update) ==
    [status |-> update.status, total_documents |-> update.total_documents,
     processed_documents |-> update.processed_documents]

\* one turn of KafkaStatusConsumer._consume_status_messages: the next message
\* of batch-status overwrites the entry of its batch id
status_consume ==
    /\ statusOffset < Len(topic.status)
    /\ LET update == topic.status[statusOffset + 1]
       IN  redis' = [redis EXCEPT ![update.batch_id] = StoredStatus(update)]
    /\ statusOffset' = statusOffset + 1
    /\ UNCHANGED <<topic, ingestion, embedder, api>>
    /\ UNCHANGED <<sinkVars, runVars, connVars, chatVars, llmVars, streamVars>>

\* the fields of DataIngestionMessage declared with Field(...)
RequiredFields ==
    {"source_id", "db_type", "connection_params", "table_or_collection",
     "text_fields", "batch_id"}

\* the keyword arguments ingest_data_async constructs the message with
GivenFields ==
    {"batch_id", "db_type", "connection_params", "table_or_collection",
     "columns_or_fields", "text_fields", "timestamp"}

\* pydantic accepts the message when no required field is missing
Validates(given) == RequiredFields \subseteq given

\* POST /ingest-data-async up to its first await; available: Kafka was
\* reached at startup.  The message is constructed, and sent when valid.
ingest_data_async(available, batch_id, rows) ==
    /\ api.op = "none"
    /\ IF ~available
       THEN /\ api' = [op |-> "ingest_data_async", outcome |-> "HTTP 503", batch_id |-> ""]
            /\ UNCHANGED topic
       ELSE IF ~Validates(GivenFields)
       THEN /\ api' = [op |-> "ingest_data_async", outcome |-> "HTTP 500", batch_id |-> ""]
            /\ UNCHANGED topic
       ELSE /\ api' = [op |-> "ingest_data_async", outcome |-> "sent", batch_id |-> batch_id]
            /\ topic' = [topic EXCEPT !.ingestion = Send(@, IngestionMessage(batch_id, rows))]
    /\ UNCHANGED <<ingestion, embedder, redis, statusOffset>>
    /\ UNCHANGED <<sinkVars, runVars, connVars, chatVars, llmVars, streamVars>>

\* POST /ingest-data-async after the send: the 'queued' entry is written and
\* the batch id returned.  No call gets here: the message never validates.
ingest_data_async_queued ==
    /\ api.outcome = "sent"
    /\ redis' = [redis EXCEPT ![api.batch_id] =
                    StoredStatus(StatusUpdate(api.batch_id, "queued", FALSE, 0, 0))]
    /\ api' = [api EXCEPT !.outcome = "queued"]
    /\ UNCHANGED <<topic, ingestion, embedder, statusOffset>>
    /\ UNCHANGED <<sinkVars, runVars, connVars, chatVars, llmVars, streamVars>>

\* the sources of the requests the pool is given: a single record of any
\* kind, or a few records with a text
PoolSources ==
    {<<WorkerRecord(kind, 1)>> : kind \in RecordKinds}
    \cup {[i \in 1..n |-> WorkerRecord("text", i)] : n \in 0..MaxPoolRows}

\* WorkerManager.start_workers: every worker is started with a consumer
\* group of its own; one request is on data-ingestion
InitPool ==
    /\ WorkerSink
    /\ WorkerRest
    /\ \E rows \in PoolSources :
            topic = [NoTopics EXCEPT !.ingestion = <<IngestionMessage("b1", rows)>>]
    /\ ingestion = [w \in IngestionWorkers |-> StartedIngestion]
    /\ embedder = [e \in EmbeddingWorkers |-> StartedEmbedder]
    /\ redis = [b \in BatchIds |-> "none"]
    /\ statusOffset = 0
    /\ api = NoApiCall

NextPool ==
    \/ \E w \in IngestionWorkers, reachable \in BOOLEAN : ingestion_poll(w, reachable)
    \/ \E w \in IngestionWorkers : ingestion_record(w, FALSE)
    \/ \E w \in IngestionWorkers : ingestion_complete(w)
    \/ \E e \in EmbeddingWorkers : embedding_consume(e, FALSE)
    \/ \E e \in EmbeddingWorkers : embedding_stop(e, {})
    \/ status_consume
    \/ \E available \in BOOLEAN, rows \in PoolSources :
            ingest_data_async(available, "b2", rows)

SpecPool == InitPool /\ [][NextPool]_vars

\* the records of a request that have a text
WithText(message) ==
    SelectSeq(message.rows,
              LAMBDA record : Strip(WorkerCombinedText(record, message.text_fields)) # <<>>)

\* C24: with the default pool, a queued ingestion request is taken by one
\* ingestion worker only, and the vector index never holds more entries than
\* the request has records with a text
C24_ProcessedOnceAddedOnce ==
    /\ Cardinality({w \in IngestionWorkers : ingestion[w].offset >= 1}) <= 1
    /\ Len(index) <= Len(WithText(topic.ingestion[1]))

\* the statuses the workers report
Reported == {"processing", "completed", "failed"}

====
